---- MODULE Spec2Model ----
(***************************************************************************)
(* Model of the collaboration-matrix pipeline of the "Collaborazioni tra   *)
(* aree scientifiche" page (pages/2_Collaborazioni_tra_aree_scientifiche.py *)
(* and its earlier variant src/app_V0.py), of the batch scripts             *)
(* src/extract_keywords.py and src/paper_classification.py, and of         *)
(* fetch_ssd in src/functions.py.                                           *)
(*                                                                         *)
(* Strings are sequences of one-character strings, so that strip, split    *)
(* and join are computed character by character as Python computes them.   *)
(* A missing cell of a table (NaN after pd.read_csv) is the value NULL.    *)
(* pandas is modelled with the semantics of the 2.x line the page runs on: *)
(* Series.astype(str) turns a missing value into the string "nan", and     *)
(* DataFrame.values of a single-dtype frame is a writable view.            *)
(***************************************************************************)
EXTENDS Integers, Sequences, FiniteSets, TLC

VARIABLES
    pc,             \* position of the program: which call has returned
    df,             \* publications table: the column authors_full, row by row
    cen,            \* census table: rows [full_name, Area_desc]
    name_to_field,  \* the roster returned by build_name_to_field
    mat_full,       \* the matrix returned by collaboration_matrix_paper_level
    mat,            \* the matrix under transformation (filter / threshold / prune)
    raw,            \* argument of parse_authors / normalise_name; a reordered table
    out,            \* result of the last string function
    df_columns,     \* df.columns: the header of the publications table
    cen_columns,    \* cen.columns: the header of the census table
    error,          \* the exception that ended the script run, "none" without one
    selected_fields,\* value of the area multiselect
    threshold,      \* min_value: the value of the threshold slider
    palette,        \* value of the palette selectbox
    sort_mode,      \* value of the sort selectbox
    shown,          \* what the run put on the page: "info", "chord", "none" so far
    arcs,           \* the groups in the order d3.chord lays their arcs out
    counting_mode,  \* app_V0: mode, the value of the "Counting mode" selectbox
    input_rows,     \* batch scripts: rows, the rows of the input CSV in file order
    output,         \* batch scripts: the rows of the output CSV, in file order
    done,           \* batch scripts: the set of keys already processed
    cursor,         \* batch scripts: number of input rows the loop has consumed
    run,            \* batch scripts: number of the current run of the script
    id_col,         \* paper_classification: TRUE when --id-col is given
    attempt,        \* retry loop: the loop variable
    max_retries,    \* retry loop: cfg.max_retries
    requests,       \* history: the requests sent and the loop iterations made, in order
    result,         \* what a call ended with: a returned value or an exception
    obj,            \* argument of validate_keywords
    first_name,     \* fetch_ssd: argument
    last_name       \* fetch_ssd: argument

\* the header and the outcome of the run
schemavars == <<df_columns, cen_columns, error>>

\* the state of the batch scripts (extract_keywords.py,
\* paper_classification.py), of functions.fetch_ssd and of app_V0's selectbox
scriptvars == <<counting_mode, input_rows, output, done, cursor, run, id_col, attempt,
                max_retries, requests, result, obj, first_name, last_name>>

\* the sidebar widgets and what is drawn
uivars == <<selected_fields, threshold, palette, sort_mode, shown, arcs>>

vars == <<pc, df, cen, name_to_field, mat_full, mat, raw, out, schemavars, uivars,
          scriptvars>>

----------------------------------------------------------------------------
(* Characters and strings *)

NULL == <<"NaN">>

\* Python compares str by code point; these are the code points of the
\* characters the model uses.
Ord(ch) ==
    CASE ch = "\t" -> 9
      [] ch = " " -> 32
      [] ch = "," -> 44
      [] ch = ";" -> 59
      [] ch = "A" -> 65
      [] ch = "B" -> 66
      [] ch = "X" -> 88
      [] ch = "Y" -> 89
      [] ch = "Z" -> 90
      [] ch = "a" -> 97
      [] ch = "b" -> 98
      [] ch = "c" -> 99
      [] ch = "n" -> 110
      [] OTHER -> 0

\* s < t for Python str: lexicographic by code point.
RECURSIVE StrLess(_, _)
StrLess(s, t) ==
    IF t = <<>> THEN FALSE
    ELSE IF s = <<>> THEN TRUE
    ELSE IF Ord(Head(s)) # Ord(Head(t)) THEN Ord(Head(s)) < Ord(Head(t))
    ELSE StrLess(Tail(s), Tail(t))

\* str.isspace for one character
IsSpace(ch) == ch \in {" ", "\t"}

\* pd.isna on a scalar cell
IsNa(v) == v = NULL

\* str.split(sep) for a one-character separator: every separator cuts, empty
\* tokens are kept, a string without separator gives one token.
RECURSIVE SplitOn(_, _)
SplitOn(s, sep) ==
    IF \A i \in 1..Len(s) : s[i] # sep THEN <<s>>
    ELSE LET k == CHOOSE i \in 1..Len(s) :
                     s[i] = sep /\ \A j \in 1..(i - 1) : s[j] # sep
         IN  <<SubSeq(s, 1, k - 1)>> \o SplitOn(SubSeq(s, k + 1, Len(s)), sep)

\* str.split() without argument: cut on runs of whitespace, no empty tokens.
RECURSIVE SplitWs(_)
SplitWs(s) ==
    IF s = <<>> THEN <<>>
    ELSE IF IsSpace(Head(s)) THEN SplitWs(Tail(s))
    ELSE LET n == IF \E i \in 1..Len(s) : IsSpace(s[i])
                  THEN (CHOOSE i \in 1..Len(s) :
                            IsSpace(s[i]) /\ \A j \in 1..(i - 1) : ~IsSpace(s[j])) - 1
                  ELSE Len(s)
         IN  <<SubSeq(s, 1, n)>> \o SplitWs(SubSeq(s, n + 1, Len(s)))

\* " ".join(words)
RECURSIVE JoinSpace(_)
JoinSpace(words) ==
    IF words = <<>> THEN <<>>
    ELSE IF Len(words) = 1 THEN words[1]
    ELSE words[1] \o <<" ">> \o JoinSpace(Tail(words))

\* str.strip()
RECURSIVE Strip(_)
Strip(s) ==
    IF s = <<>> THEN <<>>
    ELSE IF IsSpace(Head(s)) THEN Strip(Tail(s))
    ELSE IF IsSpace(s[Len(s)]) THEN Strip(SubSeq(s, 1, Len(s) - 1))
    ELSE s

\* " ".join(str(x).split())
CollapseWs(s) == JoinSpace(SplitWs(s))

\* Series.astype(str) on one cell (pandas 2.x): NaN becomes the string "nan".
AsTypeStr(v) == IF IsNa(v) THEN <<"n", "a", "n">> ELSE v

----------------------------------------------------------------------------
(* Data preparation *)

\* str.lower() on the letters of the model
LowerChar(ch) == CASE ch = "A" -> "a" [] ch = "B" -> "b" [] OTHER -> ch
Lower(s) == [i \in 1..Len(s) |-> LowerChar(s[i])]

\* Variant: the key is also case-folded (s.lower()).
normalise_name_lower(s) ==
    IF IsNa(s) THEN <<>>
    ELSE Lower(JoinSpace(SplitWs(Strip(s))))

\* Variant: only the ends are trimmed, inner whitespace is left as it is.
normalise_name_strip_only(s) ==
    IF IsNa(s) THEN <<>>
    ELSE Strip(s)

normalise_name(s) ==
    IF IsNa(s) THEN <<>>
    ELSE CollapseWs(Strip(s))

\* Variant: a semicolon, when present, is the separator; commas otherwise.
parse_authors_semicolon_first(authors_full) ==
    IF IsNa(authors_full) THEN <<>>
    ELSE LET sep  == IF \E i \in 1..Len(authors_full) : authors_full[i] = ";"
                     THEN ";" ELSE ","
             toks == SplitOn(authors_full, sep)
             norm == [i \in 1..Len(toks) |-> normalise_name(toks[i])]
         IN  SelectSeq(norm, LAMBDA t : t # <<>>)

\* Variant: a name already listed is not listed again
\* (list(dict.fromkeys(...)) on the result).
parse_authors_dedup(authors_full) ==
    IF IsNa(authors_full) THEN <<>>
    ELSE LET toks == SplitOn(authors_full, ",")
             norm == [i \in 1..Len(toks) |-> normalise_name(toks[i])]
             kept == SelectSeq(norm, LAMBDA t : t # <<>>)
             F[i \in 0..Len(kept)] ==
                 IF i = 0 THEN <<>>
                 ELSE IF \E j \in 1..(i - 1) : kept[j] = kept[i] THEN F[i - 1]
                 ELSE Append(F[i - 1], kept[i])
         IN  F[Len(kept)]

parse_authors(authors_full) ==
    IF IsNa(authors_full) THEN <<>>
    ELSE LET toks == SplitOn(authors_full, ",")
             norm == [i \in 1..Len(toks) |-> normalise_name(toks[i])]
         IN  SelectSeq(norm, LAMBDA t : t # <<>>)

\* c["full_name"].astype(str).map(normalise_name) and
\* c["Area_desc"].astype(str).map(lambda x: " ".join(str(x).split()))
NormaliseColumns(rows) ==
    [i \in 1..Len(rows) |->
        [full_name |-> normalise_name(AsTypeStr(rows[i].full_name)),
         Area_desc |-> CollapseWs(AsTypeStr(rows[i].Area_desc))]]

\* c.dropna(subset=["full_name", "Area_desc"])
DropNa(rows) ==
    SelectSeq(rows, LAMBDA r : ~IsNa(r.full_name) /\ ~IsNa(r.Area_desc))

\* c[c["full_name"].ne("") & c["Area_desc"].ne("")]
DropEmpty(rows) ==
    SelectSeq(rows, LAMBDA r : r.full_name # <<>> /\ r.Area_desc # <<>>)

\* c.drop_duplicates(subset=["full_name"], keep="first")
DropDuplicates(rows) ==
    LET keep(i) == \A j \in 1..(i - 1) : rows[j].full_name # rows[i].full_name
        F[i \in 0..Len(rows)] ==
            IF i = 0 THEN <<>>
            ELSE IF keep(i) THEN Append(F[i - 1], rows[i]) ELSE F[i - 1]
    IN  F[Len(rows)]

\* c.set_index("full_name")["Area_desc"].to_dict(): a later row of the same
\* key would overwrite an earlier one.
ToDict(rows) ==
    LET keys == {rows[i].full_name : i \in 1..Len(rows)}
        last(k) == CHOOSE i \in 1..Len(rows) :
                       rows[i].full_name = k
                       /\ \A j \in (i + 1)..Len(rows) : rows[j].full_name # k
    IN  [k \in keys |-> rows[last(k)].Area_desc]

build_name_to_field(cen_df) ==
    ToDict(DropDuplicates(DropEmpty(DropNa(NormaliseColumns(cen_df)))))

----------------------------------------------------------------------------
(* Matrix construction *)

\* name_to_field.get(key, np.nan)
Get(ntf, key) == IF key \in DOMAIN ntf THEN ntf[key] ELSE NULL

\* Variant: the unresolved names are not filtered out (no pd.notna filter).
FieldsOfPaperKeepNa(ntf, s) ==
    LET authors == parse_authors(s)
    IN  [i \in 1..Len(authors) |-> Get(ntf, authors[i])]

\* Variant: only the first two authors of a publication are looked up.
FieldsOfPaperFirstTwo(ntf, s) ==
    LET authors == parse_authors(s)
        fields  == [i \in 1..(IF Len(authors) < 2 THEN Len(authors) ELSE 2) |->
                        Get(ntf, authors[i])]
    IN  SelectSeq(fields, LAMBDA f : ~IsNa(f))

\* One iteration of the first loop: the resolved fields of one publication.
FieldsOfPaper(ntf, s) ==
    LET authors == parse_authors(s)
        fields  == [i \in 1..Len(authors) |-> Get(ntf, authors[i])]
    IN  SelectSeq(fields, LAMBDA f : ~IsNa(f))

Range(seq) == {seq[i] : i \in 1..Len(seq)}

\* sorted(S) for a set of strings
RECURSIVE Sorted(_)
Sorted(S) ==
    IF S = {} THEN <<>>
    ELSE LET m == CHOOSE x \in S : \A y \in S \ {x} : StrLess(x, y)
         IN  <<m>> \o Sorted(S \ {m})

\* Variant: itertools.combinations_with_replacement(seq, 2).
RECURSIVE Combinations2WithReplacement(_)
Combinations2WithReplacement(seq) ==
    IF seq = <<>> THEN <<>>
    ELSE [j \in 1..Len(seq) |-> <<seq[1], seq[j]>>]
         \o Combinations2WithReplacement(Tail(seq))

\* itertools.combinations(seq, 2): the pairs (seq[i], seq[j]), i < j, in
\* lexicographic order of positions.
RECURSIVE Combinations2(_)
Combinations2(seq) ==
    IF Len(seq) < 2 THEN <<>>
    ELSE [j \in 1..(Len(seq) - 1) |-> <<seq[1], seq[j + 1]>>]
         \o Combinations2(Tail(seq))

\* Variant: author-level counting, every pair of authors counts
\* (for f1, f2 in combinations(fields, 2): a, b = sorted((f1, f2))).
PairsOfPaperPairwise(fields) ==
    LET cmb == Combinations2(fields)
    IN  [i \in 1..Len(cmb) |->
            IF StrLess(cmb[i][2], cmb[i][1]) THEN <<cmb[i][2], cmb[i][1]>> ELSE cmb[i]]

\* Body of the counting loop for one publication: the pairs it counts.
\*   if len(fields) < 2: continue
\*   uniq = sorted(set(fields)); for f1, f2 in combinations(uniq, 2)
PairsOfPaper(fields) ==
    IF Len(fields) < 2 THEN <<>>
    ELSE Combinations2(Sorted(Range(fields)))

\* Variant: the pair is recorded, not counted (counts[(f1, f2)] = 1).
AddPairsNoAccumulate(counts, pairs) ==
    [k \in DOMAIN counts \cup Range(pairs) |-> 1]

\* counts[(f1, f2)] = counts.get((f1, f2), 0) + 1 for each pair in turn
AddPairs(counts, pairs) ==
    LET F[i \in 0..Len(pairs)] ==
            IF i = 0 THEN counts
            ELSE LET prev == F[i - 1]
                 IN  [k \in DOMAIN prev \cup {pairs[i]} |->
                        (IF k \in DOMAIN prev THEN prev[k] ELSE 0)
                        + (IF k = pairs[i] THEN 1 ELSE 0)]
    IN  F[Len(pairs)]

\* The second loop over fields_per_paper, from an empty dict.
CountPairs(fields_per_paper) ==
    LET F[i \in 0..Len(fields_per_paper)] ==
            IF i = 0 THEN [k \in {} |-> 0]
            ELSE AddPairs(F[i - 1], PairsOfPaper(fields_per_paper[i]))
    IN  F[Len(fields_per_paper)]

\* Variant: fields_all collects only the first member of each counted pair.
MatrixOfCountsFirstOnly(counts) ==
    LET fields_all == Sorted({p[1] : p \in DOMAIN counts})
        n == Len(fields_all)
        at(x, y) == IF <<x, y>> \in DOMAIN counts THEN counts[<<x, y>>] ELSE 0
    IN  [index  |-> fields_all,
         values |-> [i \in 1..n |-> [j \in 1..n |->
                        at(fields_all[i], fields_all[j]) + at(fields_all[j], fields_all[i])]]]

\* Variant: only mat.loc[a, b] += v, the mirrored cell is forgotten.
MatrixOfCountsOneSided(counts) ==
    LET fields_all == Sorted({p[1] : p \in DOMAIN counts} \cup {p[2] : p \in DOMAIN counts})
        n == Len(fields_all)
        at(x, y) == IF <<x, y>> \in DOMAIN counts THEN counts[<<x, y>>] ELSE 0
    IN  [index  |-> fields_all,
         values |-> [i \in 1..n |-> [j \in 1..n |-> at(fields_all[i], fields_all[j])]]]

\* fields_all, the zero frame over it, and the two += per counted pair.
MatrixOfCounts(counts) ==
    LET fields_all == Sorted({p[1] : p \in DOMAIN counts} \cup {p[2] : p \in DOMAIN counts})
        n == Len(fields_all)
        at(x, y) == IF <<x, y>> \in DOMAIN counts THEN counts[<<x, y>>] ELSE 0
    IN  [index  |-> fields_all,
         values |-> [i \in 1..n |-> [j \in 1..n |->
                        at(fields_all[i], fields_all[j]) + at(fields_all[j], fields_all[i])]]]

collaboration_matrix_paper_level(df_papers, cen_df) ==
    LET ntf == build_name_to_field(cen_df)
        fields_per_paper == [p \in 1..Len(df_papers) |-> FieldsOfPaper(ntf, df_papers[p])]
    IN  MatrixOfCounts(CountPairs(fields_per_paper))

----------------------------------------------------------------------------
(* Matrix transforms *)

Dim(m) == Len(m.index)

EmptyMatrix == [index |-> <<>>, values |-> <<>>]

\* Positional selection m.iloc[pos, pos]
Take(m, pos) ==
    [index  |-> [i \in 1..Len(pos) |-> m.index[pos[i]]],
     values |-> [i \in 1..Len(pos) |-> [j \in 1..Len(pos) |-> m.values[pos[i]][pos[j]]]]]

\* positions of the rows whose label is f, in index order
PositionsOf(m, f) ==
    LET F[i \in 0..Dim(m)] ==
            IF i = 0 THEN <<>>
            ELSE IF m.index[i] = f THEN Append(F[i - 1], i) ELSE F[i - 1]
    IN  F[Dim(m)]

\* Variant: the comparison is inclusive (m.values <= min_value).
apply_threshold_inclusive(m, min_value) ==
    [index  |-> m.index,
     values |-> [i \in 1..Dim(m) |-> [j \in 1..Dim(m) |->
                    IF m.values[i][j] <= min_value THEN 0 ELSE m.values[i][j]]]]

\* Variant: the comparison is turned round (m.values > min_value).
apply_threshold_above(m, min_value) ==
    [index  |-> m.index,
     values |-> [i \in 1..Dim(m) |-> [j \in 1..Dim(m) |->
                    IF m.values[i][j] > min_value THEN 0 ELSE m.values[i][j]]]]

apply_threshold(m, min_value) ==
    [index  |-> m.index,
     values |-> [i \in 1..Dim(m) |-> [j \in 1..Dim(m) |->
                    IF m.values[i][j] < min_value THEN 0 ELSE m.values[i][j]]]]

\* What a label-based selection gives when a requested label is not in the
\* index: pandas raises KeyError and no frame is returned.
KeyError == [index |-> <<>>, values |-> <<>>, raised |-> "KeyError"]

\* m.loc[req, req] for a list of labels
Loc(m, req) ==
    IF \E i \in 1..Len(req) : req[i] \notin Range(m.index) THEN KeyError
    ELSE LET P[i \in 0..Len(req)] ==
                 IF i = 0 THEN <<>> ELSE P[i - 1] \o PositionsOf(m, req[i])
         IN  Take(m, P[Len(req)])

\* Variant: the requested labels are not checked against the index first.
filter_fields_unchecked(m, include_fields) ==
    IF include_fields = <<>> THEN EmptyMatrix
    ELSE Loc(m, include_fields)

filter_fields(m, include_fields) ==
    IF include_fields = <<>> THEN EmptyMatrix
    ELSE Loc(m, SelectSeq(include_fields, LAMBDA f : f \in Range(m.index)))

RECURSIVE SumSeq(_)
SumSeq(s) == IF s = <<>> THEN 0 ELSE Head(s) + SumSeq(Tail(s))

\* Variant: a row is kept only when its sum exceeds 1 (mat.sum(axis=1) > 1).
PruneAboveOne(m) ==
    IF Dim(m) = 0 THEN m
    ELSE LET P[i \in 0..Dim(m)] ==
                 IF i = 0 THEN <<>>
                 ELSE IF SumSeq(m.values[i]) > 1 THEN Append(P[i - 1], i) ELSE P[i - 1]
         IN  Take(m, P[Dim(m)])

\* if not mat.empty: nonzero = mat.sum(axis=1) > 0; mat = mat.loc[nonzero, nonzero]
Prune(m) ==
    IF Dim(m) = 0 THEN m
    ELSE LET P[i \in 0..Dim(m)] ==
                 IF i = 0 THEN <<>>
                 ELSE IF SumSeq(m.values[i]) > 0 THEN Append(P[i - 1], i) ELSE P[i - 1]
         IN  Take(m, P[Dim(m)])

----------------------------------------------------------------------------
(* Inputs *)

MaxPapers == 2      \* rows of the publications table
MaxNames == 4       \* author names listed in the whole publications table

a == <<"a">>
b == <<"b">>
c == <<"c">>
A == <<"A">>
X == <<"X">>
Y == <<"Y">>
Z == <<"Z">>
nan == <<"n", "a", "n">>

SeqsUpTo(S, n) == UNION {[1..k -> S] : k \in 0..n}

\* ", ".join(names)
RECURSIVE JoinComma(_)
JoinComma(names) ==
    IF names = <<>> THEN <<>>
    ELSE IF Len(names) = 1 THEN names[1]
    ELSE names[1] \o <<",", " ">> \o JoinComma(Tail(names))

\* authors_full cells listing k names; with no name the cell is missing
AuthorCells(k) ==
    IF k = 0 THEN {NULL} ELSE {JoinComma(l) : l \in [1..k -> {a, b, c}]}

\* the publications tables of at most p rows that list at most n names
RECURSIVE TablesUpTo(_, _)
TablesUpTo(n, p) ==
    {<<>>} \cup
    (IF p = 0 THEN {}
     ELSE UNION {{<<cell>> \o rest : cell \in AuthorCells(k),
                                      rest \in TablesUpTo(n - k, p - 1)} :
                 k \in 0..n})

PaperTables == TablesUpTo(MaxNames, MaxPapers)

Row(n, f) == [full_name |-> n, Area_desc |-> f]

\* Census of three people: the first may be written capitalised, the second
\* may share the area of the first, the third the area of the second.
CensusTables ==
    {<<Row(n1, X), Row(b, f2), Row(c, f3)>> :
        n1 \in {a, A}, f2 \in {X, Y}, f3 \in {Y, Z}}

NoRoster == [k \in {} |-> <<>>]

\* Outside a run of the page: the tables carry their required columns, no
\* exception was raised, the widgets show their defaults, nothing is drawn.
RequiredDf == {"authors_full"}
RequiredCen == {"full_name", "Area_desc"}

\* the exception of a run: its type, the table it is about and the column
\* names its message lists
Raised(type, table, names) == [type |-> type, table |-> table, missing |-> names]

NoError == Raised("none", "none", {})

WellFormedTables ==
    /\ df_columns = RequiredDf
    /\ cen_columns = RequiredCen
    /\ error = NoError

WidgetDefaults ==
    /\ selected_fields = <<>>
    /\ threshold = 2
    /\ palette = "tableau10"
    /\ sort_mode = "none"
    /\ shown = "none"
    /\ arcs = <<>>

\* what a call ended with: kind is "pending", "returned" or "raised"
Outcome(kind, exception, value) == [kind |-> kind, exception |-> exception, value |-> value]

Pending == Outcome("pending", "none", <<>>)

\* a JSON value: its Python type after json.loads and its content
Json(type, items) == [type |-> type, items |-> items]

\* No batch script is running, no lookup was made.
ScriptIdle ==
    /\ counting_mode = "paper_level"
    /\ input_rows = <<>>
    /\ output = <<>>
    /\ done = {}
    /\ cursor = 0
    /\ run = 0
    /\ id_col = FALSE
    /\ attempt = 0
    /\ max_retries = 0
    /\ requests = <<>>
    /\ result = Pending
    /\ obj = Json("null", <<>>)
    /\ first_name = <<>>
    /\ last_name = <<>>

----------------------------------------------------------------------------
(* SpecBuild: the page loads the two tables and builds the full matrix *)

InitBuild ==
    /\ WellFormedTables
    /\ WidgetDefaults
    /\ ScriptIdle
    /\ pc = "loaded"
    /\ df \in PaperTables
    /\ cen \in CensusTables
    /\ name_to_field = NoRoster
    /\ mat_full = EmptyMatrix
    /\ mat = EmptyMatrix
    /\ raw = <<>>
    /\ out = <<>>

\* mat_full = collaboration_matrix_paper_level(df_papers=df, cen_df=cen)
Build ==
    /\ pc = "loaded"
    /\ name_to_field' = build_name_to_field(cen)
    /\ mat_full' = collaboration_matrix_paper_level(df, cen)
    /\ mat' = mat_full'
    /\ pc' = "built"
    /\ UNCHANGED <<df, cen, raw, out, schemavars, scriptvars, uivars>>

NextBuild == Build

SpecBuild == InitBuild /\ [][NextBuild]_vars
----------------------------------------------------------------------------
(* SpecTransform: a built matrix under any sequence of transforms *)

MaxLinked == 5      \* author names listed in the table a transformed matrix is built from
MaxRequested == 3   \* length of a requested label list
MaxMin == 3         \* largest threshold tried
MaxDim == 3         \* cap on the size of a matrix grown by repeated labels

W == <<"W">>        \* a label no matrix has

RequestedLists == SeqsUpTo({X, Y, Z, W}, MaxRequested)

MinValues == (-1)..MaxMin

\* The transforms are pure functions of a matrix: the matrix they start from
\* is any matrix the builder returns for the bounded tables, and the tables
\* themselves play no further part.
InitTransform ==
    /\ WellFormedTables
    /\ WidgetDefaults
    /\ ScriptIdle
    /\ pc = "built"
    /\ df = <<>>
    /\ cen = <<>>
    /\ name_to_field = NoRoster
    /\ \E d \in TablesUpTo(MaxLinked, MaxPapers) :
          mat_full = collaboration_matrix_paper_level(d, <<Row(a, X), Row(b, Y), Row(c, Z)>>)
    /\ mat = mat_full
    /\ raw = <<>>
    /\ out = <<>>

\* mat = filter_fields(mat, include_fields)
FilterStep ==
    /\ pc # "loaded"
    /\ \E include_fields \in RequestedLists :
          /\ Dim(filter_fields(mat, include_fields)) <= MaxDim
          /\ mat' = filter_fields(mat, include_fields)
    /\ pc' = "filtered"
    /\ UNCHANGED <<df, cen, name_to_field, mat_full, raw, out, schemavars, scriptvars, uivars>>

\* mat = apply_threshold(mat, min_value)
ThresholdStep ==
    /\ pc # "loaded"
    /\ \E min_value \in MinValues : mat' = apply_threshold(mat, min_value)
    /\ pc' = "thresholded"
    /\ UNCHANGED <<df, cen, name_to_field, mat_full, raw, out, schemavars, scriptvars, uivars>>

\* the zero-row-sum pruning of the page
PruneStep ==
    /\ pc # "loaded"
    /\ mat' = Prune(mat)
    /\ pc' = "pruned"
    /\ UNCHANGED <<df, cen, name_to_field, mat_full, raw, out, schemavars, scriptvars, uivars>>

NextTransform == FilterStep \/ ThresholdStep \/ PruneStep

SpecTransform == InitTransform /\ [][NextTransform]_vars

\* all_fields = mat_full.index.tolist(): the options of the area multiselect
all_fields == mat_full.index

----------------------------------------------------------------------------
(* Matrices of the page *)

MaxPubs == 2        \* rows of a publications table of the page

\* Census in which each of the three people has an area of their own
OwnAreaCensus == <<Row(a, X), Row(b, Y), Row(c, Z)>>

\* the publications tables of at most MaxPubs rows, each row listing the
\* first two, the last two or all three of the people
PubTables ==
    SeqsUpTo({JoinComma(<<a, b>>), JoinComma(<<b, c>>), JoinComma(<<a, b, c>>)}, MaxPubs)

\* the matrices the builder returns for these tables
BuiltMatrices == {collaboration_matrix_paper_level(d, OwnAreaCensus) : d \in PubTables}

\* lists of at most n distinct elements of S, in every order
DistinctLists(S, n) ==
    {l \in SeqsUpTo(S, n) : \A i, j \in 1..Len(l) : i # j => l[i] # l[j]}

----------------------------------------------------------------------------
(* SpecFilter: filter_fields on a built matrix and a requested list *)

\* a caller's list of distinct labels, some of which the matrix may lack
RequestedLabels == DistinctLists({X, Y, Z, W}, MaxRequested)

InitFilter ==
    /\ WellFormedTables
    /\ ScriptIdle
    /\ threshold = 2
    /\ palette = "tableau10"
    /\ sort_mode = "none"
    /\ shown = "none"
    /\ arcs = <<>>
    /\ pc = "request"
    /\ mat_full \in BuiltMatrices
    /\ selected_fields \in RequestedLabels
    /\ mat = mat_full
    /\ df = <<>>
    /\ cen = <<>>
    /\ name_to_field = NoRoster
    /\ raw = <<>>
    /\ out = <<>>

\* mat = filter_fields(mat_full, selected_fields)
CallFilter ==
    /\ pc = "request"
    /\ mat' = filter_fields(mat_full, selected_fields)
    /\ pc' = "filter_returned"
    /\ UNCHANGED <<df, cen, name_to_field, mat_full, raw, out, schemavars, scriptvars, uivars>>

NextFilter == CallFilter

SpecFilter == InitFilter /\ [][NextFilter]_vars

----------------------------------------------------------------------------
(* Chord layout: the order in which d3.chord lays out the groups *)

\* groupSums of d3.chord: the total of each row
GroupSums(matrix) == [i \in 1..Len(matrix) |-> SumSeq(matrix[i])]

\* d3.descending(x, y): negative when x goes first
Descending(x, y) == IF y < x THEN -1 ELSE IF y > x THEN 1 ELSE 0

\* d3.ascending(x, y)
Ascending(x, y) == IF x < y THEN -1 ELSE IF x > y THEN 1 ELSE 0

\* Array.prototype.sort with a comparator on the sums: a stable sort, here by
\* insertion of each index after the last one that does not go after it.
SortIndex(sums, comparator) ==
    LET Compare(x, y) == IF comparator = "descending" THEN Descending(x, y)
                         ELSE Ascending(x, y)
        Insert(sorted, i) ==
            LET before == {k \in 1..Len(sorted) : Compare(sums[sorted[k]], sums[i]) <= 0}
                n      == IF before = {} THEN 0
                          ELSE CHOOSE k \in before :
                                   /\ \A l \in 1..k : l \in before
                                   /\ (k + 1) \notin before
            IN  SubSeq(sorted, 1, n) \o <<i>> \o SubSeq(sorted, n + 1, Len(sorted))
        F[i \in 0..Len(sums)] == IF i = 0 THEN <<>> ELSE Insert(F[i - 1], i)
    IN  F[Len(sums)]

\* Variant: chordGen.sortGroups(d3.ascending)
GroupIndexAscending(matrix, mode) ==
    IF mode = "groups_desc" THEN SortIndex(GroupSums(matrix), "ascending")
    ELSE [i \in 1..Len(matrix) |-> i]

\* groupIndex of d3.chord after
\*   if (sortMode === "groups_desc") chordGen.sortGroups(d3.descending)
\* the other modes sort within a group or among the ribbons, not the groups
GroupIndex(matrix, mode) ==
    IF mode = "groups_desc" THEN SortIndex(GroupSums(matrix), "descending")
    ELSE [i \in 1..Len(matrix) |-> i]

----------------------------------------------------------------------------
(* SpecPage: runs of the page script, one after each change of a widget *)

SliderMax == 50     \* max_value of the threshold slider

\* the slider values tried: 0 up to MaxMin, which is above every cell
SliderValues == 0..(IF MaxMin < SliderMax THEN MaxMin ELSE SliderMax)

Palettes == {"tableau10", "set3", "paired"}

SortModes == {"none", "groups_desc", "subgroups_desc", "chords_desc"}

\* First run of the script: the tables are read, the widgets have their
\* default values, nothing is computed or drawn yet.
InitPage ==
    /\ WellFormedTables
    /\ ScriptIdle
    /\ pc = "page_first"
    /\ df \in PubTables
    /\ cen = OwnAreaCensus
    /\ name_to_field = NoRoster
    /\ mat_full = EmptyMatrix
    /\ mat = EmptyMatrix
    /\ raw = <<>>
    /\ out = <<>>
    /\ selected_fields = <<>>
    /\ threshold = 2
    /\ palette = "tableau10"
    /\ sort_mode = "none"
    /\ shown = "none"
    /\ arcs = <<>>

\* mat_full = collaboration_matrix_paper_level(df_papers=df, cen_df=cen);
\* the multiselect offers all_fields and, until the user touches it, returns
\* its default, all_fields.
BuildPage ==
    /\ pc \in {"page_first", "page_rerun"}
    /\ name_to_field' = build_name_to_field(cen)
    /\ mat_full' = collaboration_matrix_paper_level(df, cen)
    /\ selected_fields' = IF pc = "page_first" THEN mat_full'.index ELSE selected_fields
    /\ pc' = "page_built"
    /\ UNCHANGED <<df, cen, mat, raw, out, schemavars, scriptvars,
                   threshold, palette, sort_mode, shown, arcs>>

\* Variant: the selection is applied to the matrix of the previous step
\* instead of the full matrix.
FilterPageIncremental ==
    /\ pc = "page_built"
    /\ mat' = filter_fields(mat, selected_fields)
    /\ pc' = "page_filtered"
    /\ UNCHANGED <<df, cen, name_to_field, mat_full, raw, out, schemavars, scriptvars, uivars>>

\* mat = filter_fields(mat_full, selected_fields)
FilterPage ==
    /\ pc = "page_built"
    /\ LET res == filter_fields(mat_full, selected_fields)
       IN  IF res = KeyError
           THEN /\ error' = Raised("KeyError", "mat", {})
                /\ pc' = "page_failed"
                /\ UNCHANGED mat
           ELSE /\ mat' = res
                /\ pc' = "page_filtered"
                /\ UNCHANGED error
    /\ UNCHANGED <<df, cen, name_to_field, mat_full, raw, out,
                   df_columns, cen_columns, scriptvars, uivars>>

\* mat = apply_threshold(mat, min_value=min_value)
ThresholdPage ==
    /\ pc = "page_filtered"
    /\ mat' = apply_threshold(mat, threshold)
    /\ pc' = "page_thresholded"
    /\ UNCHANGED <<df, cen, name_to_field, mat_full, raw, out, schemavars, scriptvars, uivars>>

\* Variant: the pruning block is left out.
PrunePageSkipped ==
    /\ pc = "page_thresholded"
    /\ mat' = mat
    /\ pc' = "page_pruned"
    /\ UNCHANGED <<df, cen, name_to_field, mat_full, raw, out, schemavars, scriptvars, uivars>>

\* if not mat.empty: nonzero = (mat.sum(axis=1) > 0); mat = mat.loc[nonzero, nonzero]
PrunePage ==
    /\ pc = "page_thresholded"
    /\ mat' = Prune(mat)
    /\ pc' = "page_pruned"
    /\ UNCHANGED <<df, cen, name_to_field, mat_full, raw, out, schemavars, scriptvars, uivars>>

\* Variant: the branch tests the labels of the full matrix (if not all_fields).
RenderPageOnFullMatrix ==
    /\ pc = "page_pruned"
    /\ IF all_fields = <<>>
       THEN shown' = "info" /\ arcs' = <<>>
       ELSE shown' = "chord" /\ arcs' = GroupIndex(mat.values, sort_mode)
    /\ pc' = "page_shown"
    /\ UNCHANGED <<df, cen, name_to_field, mat_full, mat, raw, out, schemavars, scriptvars,
                   selected_fields, threshold, palette, sort_mode>>

\* labels = mat.index.tolist(); matrix = mat.values.tolist()
\* if not labels: st.info(...) else: components.html(chord_html(labels, matrix, ...))
RenderPage ==
    /\ pc = "page_pruned"
    /\ IF mat.index = <<>>
       THEN shown' = "info" /\ arcs' = <<>>
       ELSE shown' = "chord" /\ arcs' = GroupIndex(mat.values, sort_mode)
    /\ pc' = "page_shown"
    /\ UNCHANGED <<df, cen, name_to_field, mat_full, mat, raw, out, schemavars, scriptvars,
                   selected_fields, threshold, palette, sort_mode>>

\* A change of a widget ends the run and starts the script again from the
\* top: the names of the previous run are gone, the widget values stay.
Rerun ==
    /\ pc = "page_shown"
    /\ pc' = "page_rerun"
    /\ mat' = EmptyMatrix
    /\ shown' = "none"
    /\ arcs' = <<>>
    /\ UNCHANGED <<df, cen, name_to_field, mat_full, raw, out, schemavars, scriptvars>>

\* the user picks areas in the multiselect, in any order
ChangeSelection ==
    /\ Rerun
    /\ selected_fields' \in DistinctLists(Range(all_fields), Len(all_fields)) \ {selected_fields}
    /\ UNCHANGED <<threshold, palette, sort_mode>>

\* the user moves the threshold slider
ChangeThreshold ==
    /\ Rerun
    /\ threshold' \in SliderValues \ {threshold}
    /\ UNCHANGED <<selected_fields, palette, sort_mode>>

\* the user picks another palette
ChangePalette ==
    /\ Rerun
    /\ palette' \in Palettes \ {palette}
    /\ UNCHANGED <<selected_fields, threshold, sort_mode>>

\* the user picks another sort mode
ChangeSortMode ==
    /\ Rerun
    /\ sort_mode' \in SortModes \ {sort_mode}
    /\ UNCHANGED <<selected_fields, threshold, palette>>

NextPage ==
    \/ BuildPage
    \/ FilterPage
    \/ ThresholdPage
    \/ PrunePage
    \/ RenderPage
    \/ ChangeSelection
    \/ ChangeThreshold
    \/ ChangePalette
    \/ ChangeSortMode

SpecPage == InitPage /\ [][NextPage]_vars

----------------------------------------------------------------------------
(* SpecSchema: a run on tables whose header may lack a required column,   *)
(* up to the full matrix; the page, and the script of app_V0.py            *)

\* headers: the required columns and one other column, each present or not
DfHeaders == SUBSET {"authors_full", "title"}
CenHeaders == SUBSET {"full_name", "Area_desc", "Area"}

\* required - set(columns)
MissingColumns(required, columns) == required \ columns

InitSchema ==
    /\ WidgetDefaults
    /\ ScriptIdle
    /\ pc \in {"page_load", "v0_load"}
    /\ df_columns \in DfHeaders
    /\ cen_columns \in CenHeaders
    /\ df \in (IF RequiredDf \subseteq df_columns THEN PubTables ELSE {<<>>})
    /\ cen = OwnAreaCensus
    /\ error = NoError
    /\ name_to_field = NoRoster
    /\ mat_full = EmptyMatrix
    /\ mat = EmptyMatrix
    /\ raw = <<>>
    /\ out = <<>>

\* collaboration_matrix_paper_level, first test:
\*   if not required_df.issubset(df_papers.columns): raise ValueError(...)
CheckDfColumns ==
    /\ pc = "page_load"
    /\ IF RequiredDf \subseteq df_columns
       THEN pc' = "df_checked" /\ UNCHANGED error
       ELSE /\ error' = Raised("ValueError", "df", MissingColumns(RequiredDf, df_columns))
            /\ pc' = "schema_failed"
    /\ UNCHANGED <<df, cen, name_to_field, mat_full, mat, raw, out,
                   df_columns, cen_columns, scriptvars, uivars>>

\* Variant: the roster is built before the census header is tested, as in
\* collaboration_matrix of app_V0.py; a missing census column then ends
\* build_name_to_field with the KeyError of the column access.
CheckCenColumnsAfterRoster ==
    /\ pc = "df_checked"
    /\ IF RequiredCen \subseteq cen_columns
       THEN pc' = "cen_checked" /\ UNCHANGED error
       ELSE /\ error' = Raised("KeyError", "cen", MissingColumns(RequiredCen, cen_columns))
            /\ pc' = "schema_failed"
    /\ UNCHANGED <<df, cen, name_to_field, mat_full, mat, raw, out,
                   df_columns, cen_columns, scriptvars, uivars>>

\* second test:
\*   if not required_cen.issubset(cen_df.columns): raise ValueError(...)
CheckCenColumns ==
    /\ pc = "df_checked"
    /\ IF RequiredCen \subseteq cen_columns
       THEN pc' = "cen_checked" /\ UNCHANGED error
       ELSE /\ error' = Raised("ValueError", "cen", MissingColumns(RequiredCen, cen_columns))
            /\ pc' = "schema_failed"
    /\ UNCHANGED <<df, cen, name_to_field, mat_full, mat, raw, out,
                   df_columns, cen_columns, scriptvars, uivars>>

\* name_to_field = build_name_to_field(cen_df)
RosterChecked ==
    /\ pc = "cen_checked"
    /\ name_to_field' = build_name_to_field(cen)
    /\ pc' = "roster_built"
    /\ UNCHANGED <<df, cen, mat_full, mat, raw, out, schemavars, scriptvars, uivars>>

\* the two loops and the frame: the matrix is returned
MatrixChecked ==
    /\ pc = "roster_built"
    /\ mat_full' = collaboration_matrix_paper_level(df, cen)
    /\ pc' = "matrix_built"
    /\ UNCHANGED <<df, cen, name_to_field, mat, raw, out, schemavars, scriptvars, uivars>>

\* app_V0.py, the tests of the script before collaboration_matrix is called:
\*   if not required_df.issubset(df.columns): raise ValueError(...)
\*   if not required_cen.issubset(cen.columns): raise ValueError(...)
V0Guard ==
    /\ pc = "v0_load"
    /\ IF ~(RequiredDf \subseteq df_columns)
       THEN /\ error' = Raised("ValueError", "df", MissingColumns(RequiredDf, df_columns))
            /\ pc' = "schema_failed"
       ELSE IF ~(RequiredCen \subseteq cen_columns)
       THEN /\ error' = Raised("ValueError", "cen", MissingColumns(RequiredCen, cen_columns))
            /\ pc' = "schema_failed"
       ELSE pc' = "v0_called" /\ UNCHANGED error
    /\ UNCHANGED <<df, cen, name_to_field, mat_full, mat, raw, out,
                   df_columns, cen_columns, scriptvars, uivars>>

\* app_V0.py, collaboration_matrix, first statement:
\*   name_to_field = build_name_to_field(cen)
\* which reads both census columns and has no test before it.
V0Roster ==
    /\ pc = "v0_called"
    /\ IF RequiredCen \subseteq cen_columns
       THEN /\ name_to_field' = build_name_to_field(cen)
            /\ pc' = "v0_roster_built"
            /\ UNCHANGED error
       ELSE /\ error' = Raised("KeyError", "cen", MissingColumns(RequiredCen, cen_columns))
            /\ pc' = "schema_failed"
            /\ UNCHANGED name_to_field
    /\ UNCHANGED <<df, cen, mat_full, mat, raw, out, df_columns, cen_columns, scriptvars, uivars>>

\* app_V0.py, collaboration_matrix, the tests after the roster:
\*   if "authors_full" not in df.columns: raise ValueError(...)
\*   if not {"full_name", "Area_desc"}.issubset(set(cen.columns)): raise ValueError(...)
V0CheckColumns ==
    /\ pc = "v0_roster_built"
    /\ IF ~(RequiredDf \subseteq df_columns)
       THEN error' = Raised("ValueError", "df", RequiredDf) /\ pc' = "schema_failed"
       ELSE IF ~(RequiredCen \subseteq cen_columns)
       THEN error' = Raised("ValueError", "cen", RequiredCen) /\ pc' = "schema_failed"
       ELSE pc' = "v0_checked" /\ UNCHANGED error
    /\ UNCHANGED <<df, cen, name_to_field, mat_full, mat, raw, out,
                   df_columns, cen_columns, scriptvars, uivars>>

\* app_V0.py, collaboration_matrix with mode "paper_level" selected: the same
\* loops as collaboration_matrix_paper_level
V0Matrix ==
    /\ pc = "v0_checked"
    /\ mat_full' = collaboration_matrix_paper_level(df, cen)
    /\ pc' = "matrix_built"
    /\ UNCHANGED <<df, cen, name_to_field, mat, raw, out, schemavars, scriptvars, uivars>>

NextSchema ==
    \/ CheckDfColumns
    \/ CheckCenColumns
    \/ RosterChecked
    \/ MatrixChecked
    \/ V0Guard
    \/ V0Roster
    \/ V0CheckColumns
    \/ V0Matrix

SpecSchema == InitSchema /\ [][NextSchema]_vars

----------------------------------------------------------------------------
(* SpecParse: parse_authors on one authors_full cell *)

MaxLen == 4         \* characters in a raw authors_full cell

RawCells == {NULL} \cup SeqsUpTo({"a", "b", " ", ",", ";"}, MaxLen)

InitParse ==
    /\ WellFormedTables
    /\ WidgetDefaults
    /\ ScriptIdle
    /\ pc = "cell"
    /\ raw \in RawCells
    /\ out = <<>>
    /\ df = <<>>
    /\ cen = <<>>
    /\ name_to_field = NoRoster
    /\ mat_full = EmptyMatrix
    /\ mat = EmptyMatrix

\* authors = parse_authors(s)
Parse ==
    /\ pc = "cell"
    /\ out' = parse_authors(raw)
    /\ pc' = "parsed"
    /\ UNCHANGED <<raw, df, cen, name_to_field, mat_full, mat, schemavars, scriptvars, uivars>>

NextParse == Parse

SpecParse == InitParse /\ [][NextParse]_vars

----------------------------------------------------------------------------
(* SpecNormalise: normalise_name on one cell *)

\* a missing cell, or text of lower- and upper-case letters, blanks and tabs
RawStrings == {NULL} \cup SeqsUpTo({"a", "A", " ", "\t"}, MaxLen)

InitNormalise ==
    /\ WellFormedTables
    /\ WidgetDefaults
    /\ ScriptIdle
    /\ pc = "string"
    /\ raw \in RawStrings
    /\ out = <<>>
    /\ df = <<>>
    /\ cen = <<>>
    /\ name_to_field = NoRoster
    /\ mat_full = EmptyMatrix
    /\ mat = EmptyMatrix

\* normalise_name(a)
Normalise ==
    /\ pc = "string"
    /\ out' = normalise_name(raw)
    /\ pc' = "normalised"
    /\ UNCHANGED <<raw, df, cen, name_to_field, mat_full, mat, schemavars, scriptvars, uivars>>

NextNormalise == Normalise

SpecNormalise == InitNormalise /\ [][NextNormalise]_vars

----------------------------------------------------------------------------
(* SpecRoster: build_name_to_field on a census table *)

MaxCen == 3         \* rows of the census table

\* Cells as pd.read_csv delivers them: missing (an empty field), blank, or
\* text with stray whitespace.
RawNames == {NULL, <<" ">>, a, <<" ", "a">>, b}
RawAreas == {NULL, <<" ">>, X, <<"Y", " ">>}

RosterCensusTables ==
    SeqsUpTo({Row(n, f) : n \in RawNames, f \in RawAreas}, MaxCen)

InitRoster ==
    /\ WellFormedTables
    /\ WidgetDefaults
    /\ ScriptIdle
    /\ pc = "census"
    /\ cen \in RosterCensusTables
    /\ name_to_field = NoRoster
    /\ df = <<>>
    /\ mat_full = EmptyMatrix
    /\ mat = EmptyMatrix
    /\ raw = <<>>
    /\ out = <<>>

\* name_to_field = build_name_to_field(cen_df)
BuildRoster ==
    /\ pc = "census"
    /\ name_to_field' = build_name_to_field(cen)
    /\ pc' = "roster"
    /\ UNCHANGED <<df, cen, mat_full, mat, raw, out, schemavars, scriptvars, uivars>>

NextRoster == BuildRoster

SpecRoster == InitRoster /\ [][NextRoster]_vars


----------------------------------------------------------------------------
(* Properties of the built matrix (SpecBuild) *)

\* value of the cell labelled (x, y); 0 when a label is not in the index
Cell(m, x, y) ==
    IF x \in Range(m.index) /\ y \in Range(m.index)
    THEN m.values[CHOOSE i \in 1..Dim(m) : m.index[i] = x]
                 [CHOOSE j \in 1..Dim(m) : m.index[j] = y]
    ELSE 0

RemoveAt(seq, p) == SubSeq(seq, 1, p - 1) \o SubSeq(seq, p + 1, Len(seq))

\* Reference: the set of areas of the resolved authors of publication p.
AreasOfPaper(p) ==
    {Get(name_to_field, t) : t \in Range(parse_authors(df[p]))} \ {NULL}

Papers == 1..Len(df)

\* C3: a publication whose resolved authors cover exactly k >= 2 distinct
\* areas raises both symmetric cells of each of its k*(k-1)/2 unordered area
\* pairs by exactly 1 and changes no other cell, however many of its authors
\* map to each area (compared with the matrix built without that publication).
C3_PaperLevelCounting ==
    pc = "built" =>
        \A p \in Papers :
            LET S      == AreasOfPaper(p)
                k      == Cardinality(S)
                rest   == collaboration_matrix_paper_level(RemoveAt(df, p), cen)
                labels == Range(mat_full.index) \cup Range(rest.index)
                raised == {q \in labels \X labels :
                              Cell(mat_full, q[1], q[2]) # Cell(rest, q[1], q[2])}
            IN  k >= 2 =>
                    /\ raised = {q \in S \X S : q[1] # q[2]}
                    /\ \A q \in raised :
                           Cell(mat_full, q[1], q[2]) = Cell(rest, q[1], q[2]) + 1
                    /\ Cardinality(raised) = k * (k - 1)

\* A publication of four resolved authors covering three areas.
C3_Witness ==
    /\ pc = "built"
    /\ \E p \in Papers :
          /\ Cardinality(AreasOfPaper(p)) = 3
          /\ Len(FieldsOfPaper(name_to_field, df[p])) = 4

\* C4: for distinct areas i, j of the built matrix, M[i][j] is the number of
\* publication rows whose set of resolved author areas contains both i and j.
C4_CellCountsPublications ==
    pc = "built" =>
        \A i, j \in Range(mat_full.index) :
            i # j =>
                Cell(mat_full, i, j)
                    = Cardinality({p \in Papers : {i, j} \subseteq AreasOfPaper(p)})

\* Two publications linking the same two areas.
C4_Witness ==
    /\ pc = "built"
    /\ \E i, j \in Range(mat_full.index) : Cell(mat_full, i, j) >= 2

RosterAreas == {name_to_field[n] : n \in DOMAIN name_to_field}

\* C5 as stated: every area that is a value of the roster is a row/column of
\* the built matrix (and so an option of the area filter), also when it
\* co-occurs with no other area.
C5_EveryRosterAreaIndexed ==
    pc = "built" => RosterAreas \subseteq Range(all_fields)

\* C5 amended: the built matrix is indexed, in sorted order and without
\* repetition, by exactly the areas that co-occur with another area in at
\* least one publication; a roster area that never co-occurs is absent.
C5_IndexIsCooccurringAreas ==
    pc = "built" =>
        /\ Range(all_fields)
              = {x \in RosterAreas :
                    \E p \in Papers :
                        x \in AreasOfPaper(p) /\ Cardinality(AreasOfPaper(p)) >= 2}
        /\ \A i, j \in 1..Len(all_fields) :
              i < j => StrLess(all_fields[i], all_fields[j])

\* A non-empty matrix that lacks an area of the roster.
C5_Witness ==
    /\ pc = "built"
    /\ all_fields # <<>>
    /\ RosterAreas \ Range(all_fields) # {}

\* C6: a publication with a missing author cell, with no or one resolvable
\* author, or whose resolved authors all map to one area, contributes nothing:
\* the matrix is the one built without that publication.
C6_NoSignalPaperContributesNothing ==
    pc = "built" =>
        \A p \in Papers :
            Cardinality(AreasOfPaper(p)) < 2 =>
                collaboration_matrix_paper_level(RemoveAt(df, p), cen) = mat_full

\* A non-empty matrix next to a publication listing several resolved authors
\* of one single area.
C6_Witness ==
    /\ pc = "built"
    /\ mat_full.index # <<>>
    /\ \E p \in Papers :
          /\ Len(FieldsOfPaper(name_to_field, df[p])) >= 2
          /\ Cardinality(AreasOfPaper(p)) = 1

\* the raw author tokens of publication p that hold a name
RawTokens(p) ==
    IF IsNa(df[p]) THEN {}
    ELSE {t \in Range(SplitOn(df[p], ",")) : SplitWs(t) # <<>>}

\* the first census row, if any, satisfying Match
FirstRow(Match(_)) ==
    IF \E i \in 1..Len(cen) : Match(i)
    THEN {CHOOSE i \in 1..Len(cen) : Match(i) /\ \A j \in 1..(i - 1) : ~Match(j)}
    ELSE {}

\* the words of a cell as the roster reads it
Words(v) == SplitWs(AsTypeStr(v))
LowerWords(v) == [i \in 1..Len(Words(v)) |-> Lower(Words(v)[i])]

\* census row r is kept by the roster (neither field blank)
Kept(r) == Words(cen[r].full_name) # <<>> /\ Words(cen[r].Area_desc) # <<>>

\* areas of the first kept census rows whose name equals a token of p up to
\* whitespace and letter case
AreasIgnoringCase(p) ==
    UNION {{JoinSpace(Words(cen[i].Area_desc)) :
              i \in FirstRow(LAMBDA r : Kept(r) /\ LowerWords(cen[r].full_name) = LowerWords(t))} :
           t \in RawTokens(p)}

\* the same, the letters compared as they are
AreasExactCase(p) ==
    UNION {{JoinSpace(Words(cen[i].Area_desc)) :
              i \in FirstRow(LAMBDA r : Kept(r) /\ Words(cen[r].full_name) = Words(t))} :
           t \in RawTokens(p)}

\* C7 as stated: an author token that differs from a census full_name only in
\* letter case resolves to that row's area and contributes to the matrix.
C7_CaseInsensitiveMatch ==
    pc = "built" =>
        \A p \in Papers :
            /\ AreasIgnoringCase(p) \subseteq Range(FieldsOfPaper(name_to_field, df[p]))
            /\ \A x, y \in AreasIgnoringCase(p) : x # y => Cell(mat_full, x, y) >= 1

\* C7 amended: the lookup key is trimmed and whitespace-collapsed but keeps
\* its letter case: the areas a publication resolves to are exactly those of
\* the census names equal to one of its tokens letter for letter, each pair of
\* them is counted in the matrix, and a token that matches a census name only
\* up to letter case resolves to nothing.
C7_ExactCaseMatch ==
    pc = "built" =>
        \A p \in Papers :
            /\ Range(FieldsOfPaper(name_to_field, df[p])) = AreasExactCase(p)
            /\ \A x, y \in AreasExactCase(p) : x # y => Cell(mat_full, x, y) >= 1

\* A publication with a token that matches a census name only up to case
\* beside a token that matches exactly: nothing is counted.
C7_Witness ==
    /\ pc = "built"
    /\ \E p \in Papers :
          /\ Cardinality(AreasIgnoringCase(p)) >= 2
          /\ Cardinality(AreasExactCase(p)) = 1
          /\ Len(df) = 1
          /\ mat_full = EmptyMatrix
----------------------------------------------------------------------------
(* Invariants of the pipeline (SpecTransform) *)

Symmetric(m) ==
    /\ Len(m.values) = Dim(m)
    /\ \A i \in 1..Dim(m) : Len(m.values[i]) = Dim(m)
    /\ \A i, j \in 1..Dim(m) : m.values[i][j] = m.values[j][i]

\* C1: the matrix returned by the builder, and every matrix obtained from it
\* by any sequence of filter_fields, apply_threshold and pruning steps, is a
\* square matrix with M[i][j] = M[j][i] for all i, j.
C1_Symmetry ==
    pc # "loaded" => Symmetric(mat_full) /\ Symmetric(mat)

\* A pruned matrix, smaller than the built one, that still has a link.
C1_Witness ==
    /\ pc = "pruned"
    /\ Dim(mat) = 2
    /\ Dim(mat_full) = 3
    /\ mat.values[1][2] = 2

ZeroDiagonal(m) ==
    \A i, j \in 1..Dim(m) : m.index[i] = m.index[j] => m.values[i][j] = 0

\* C2: the diagonal is zero in the built matrix and stays zero under any
\* sequence of filter_fields, apply_threshold and pruning steps: every cell
\* whose row and column carry the same label is 0.
C2_ZeroDiagonal ==
    pc # "loaded" => ZeroDiagonal(mat_full) /\ ZeroDiagonal(mat)

\* A filtered matrix in which the requested list repeated a label, so that
\* two different rows carry the same label, and which still has a link.
C2_Witness ==
    /\ pc = "filtered"
    /\ \E i, j \in 1..Dim(mat) : i # j /\ mat.index[i] = mat.index[j]
    /\ \E i, j \in 1..Dim(mat) : mat.values[i][j] > 0
----------------------------------------------------------------------------
(* Properties of parse_authors (SpecParse) *)

Count(s, ch) == Cardinality({i \in 1..Len(s) : s[i] = ch})

RECURSIVE Flatten(_)
Flatten(ss) == IF ss = <<>> THEN <<>> ELSE Head(ss) \o Flatten(Tail(ss))

Letters(s, seps) == SelectSeq(s, LAMBDA ch : ~IsSpace(ch) /\ ch \notin seps)

\* positions where a name starts when the separator is sep: the first
\* non-blank character after the start of the cell or after a sep
NameStarts(s, sep) ==
    {i \in 1..Len(s) :
        /\ ~IsSpace(s[i]) /\ s[i] # sep
        /\ \A j \in 1..(i - 1) :
              (\A k \in j..(i - 1) : s[k] # sep) => IsSpace(s[j])}

\* the cell is cut at every sep and nowhere else: one token per name, no sep
\* left inside a token, and every other non-blank character kept, in order
CutOn(sep) ==
    /\ Len(out) = Cardinality(NameStarts(raw, sep))
    /\ \A i \in 1..Len(out) : Count(out[i], sep) = 0
    /\ Letters(Flatten(out), {}) = Letters(raw, {sep})

HasSemicolon == Count(raw, ";") > 0

\* C8 as stated: a cell with a semicolon is split on semicolons only (commas
\* stay inside the tokens), any other cell on commas.
C8_SemicolonPriority ==
    (pc = "parsed" /\ ~IsNa(raw)) =>
        IF HasSemicolon THEN CutOn(";") ELSE CutOn(",")

\* C8 amended: parse_authors has one delimiter, the comma: every cell is split
\* on commas, whether or not it contains a semicolon, and semicolons stay
\* inside the tokens.
C8_CommaOnly ==
    (pc = "parsed" /\ ~IsNa(raw)) =>
        /\ CutOn(",")
        /\ Count(Flatten(out), ";") = Count(raw, ";")

\* A cell with a semicolon and a comma: cut at the comma, the semicolon kept.
C8_Witness ==
    /\ pc = "parsed"
    /\ HasSemicolon
    /\ Count(raw, ",") = 1
    /\ Len(out) = 2
    /\ Count(out[1], ";") = 1

----------------------------------------------------------------------------
(* Properties of the roster (SpecRoster) *)

CensusRows == 1..Len(cen)

\* the normalized form of a cell as the specification defines it: missing
\* reads as the empty string
SpecNorm(v) == IF IsNa(v) THEN <<>> ELSE JoinSpace(SplitWs(v))

\* row r is usable: neither normalized field is empty
Usable(r) == SpecNorm(cen[r].full_name) # <<>> /\ SpecNorm(cen[r].Area_desc) # <<>>

\* C9: on duplicate normalized names the first occurrence wins: each roster
\* key is the normalized name of a usable census row and maps to the area of
\* the earliest usable row of that name (and to that one area only).
C9_FirstOccurrenceWins ==
    pc = "roster" =>
        /\ DOMAIN name_to_field = {SpecNorm(cen[r].full_name) : r \in {q \in CensusRows : Usable(q)}}
        /\ \A r \in CensusRows :
              (Usable(r) /\ \A q \in 1..(r - 1) :
                               Usable(q) => SpecNorm(cen[q].full_name) # SpecNorm(cen[r].full_name))
                  => name_to_field[SpecNorm(cen[r].full_name)] = SpecNorm(cen[r].Area_desc)

\* C10: no roster key and no roster value is derived from a row with a
\* missing, empty or all-whitespace full_name or Area_desc: every entry of the
\* roster is the normalized (name, area) of a usable census row.
C10_BlankRowsDropped ==
    pc = "roster" =>
        \A k \in DOMAIN name_to_field :
            \E r \in CensusRows :
                /\ Usable(r)
                /\ k = SpecNorm(cen[r].full_name)
                /\ name_to_field[k] = SpecNorm(cen[r].Area_desc)

\* no cell of the census is missing
NoMissingCell ==
    \A r \in CensusRows : ~IsNa(cen[r].full_name) /\ ~IsNa(cen[r].Area_desc)

\* On a census without missing cells both statements hold of the code.
C9_HoldsWithoutMissingCells ==
    NoMissingCell => C9_FirstOccurrenceWins

C10_HoldsWithoutMissingCells ==
    NoMissingCell => C10_BlankRowsDropped
----------------------------------------------------------------------------
(* Properties of normalise_name (SpecNormalise) *)

Blank(s) == \A i \in 1..Len(s) : IsSpace(s[i])

\* C11: normalise_name is idempotent and canonical: normalising its result
\* again changes nothing; the result neither starts nor ends with whitespace
\* and has no two adjacent whitespace characters; a missing cell and a cell of
\* whitespace only give the empty string.
C11_NormaliseIdempotentCanonical ==
    pc = "normalised" =>
        /\ normalise_name(out) = out
        /\ out # <<>> => ~IsSpace(out[1]) /\ ~IsSpace(out[Len(out)])
        /\ \A i \in 1..(Len(out) - 1) : ~(IsSpace(out[i]) /\ IsSpace(out[i + 1]))
        /\ (IsNa(raw) \/ Blank(raw)) => out = <<>>

\* Two names of different case separated by a tab and a blank.
C11_Witness ==
    /\ pc = "normalised"
    /\ raw = <<"a", "\t", " ", "A">>
    /\ out = <<"a", " ", "A">>
----------------------------------------------------------------------------
(* Order and multiplicity of parse_authors (SpecParse) *)

\* the positions that delimit the tokens of s: before its first character,
\* at each comma, after its last character
CommaCuts(s) == {0, Len(s) + 1} \cup {i \in 1..Len(s) : s[i] = ","}

\* the stretches of s between consecutive cuts, from left to right
Segments(s) ==
    LET cuts   == CommaCuts(s)
        nth(k) == CHOOSE x \in cuts : Cardinality({y \in cuts : y < x}) = k
    IN  [k \in 1..(Cardinality(cuts) - 1) |-> SubSeq(s, nth(k - 1) + 1, nth(k) - 1)]

Occurrences(seq, v) == Cardinality({i \in 1..Len(seq) : seq[i] = v})

\* C12: parse_authors returns the normalized non-empty tokens of the cell in
\* their input order: a missing cell gives the empty list, a token that is
\* empty once normalized is left out, and a name listed several times in the
\* cell is listed as many times in the result.
C12_TokensInOrderNoDedup ==
    pc = "parsed" =>
        IF IsNa(raw) THEN out = <<>>
        ELSE LET segs == Segments(raw)
                 toks == [k \in 1..Len(segs) |-> SpecNorm(segs[k])]
             IN  /\ out = SelectSeq(toks, LAMBDA t : t # <<>>)
                 /\ \A i \in 1..Len(out) : out[i] # <<>>
                 /\ \A k \in 1..Len(toks) :
                       toks[k] # <<>> => Occurrences(out, toks[k]) = Occurrences(toks, toks[k])

\* The same name twice around an empty token.
C12_Witness ==
    /\ pc = "parsed"
    /\ raw = <<"a", ",", ",", "a">>
    /\ out = <<a, a>>
----------------------------------------------------------------------------
(* Properties of filter_fields (SpecFilter) *)

\* the requested labels that the matrix has, in the requested order
RequestedPresent == SelectSeq(selected_fields, LAMBDA f : f \in Range(mat_full.index))

\* C13: filter_fields returns the matrix restricted to the requested labels
\* that are in its index: rows and columns follow the requested order and
\* every cell keeps the value it has in the input; for an empty request, or a
\* request sharing no label with the index, the result is the empty 0x0 matrix
\* and no error is raised.
C13_FilterRestrictsInRequestedOrder ==
    pc = "filter_returned" =>
        /\ mat # KeyError
        /\ mat.index = RequestedPresent
        /\ Len(mat.values) = Dim(mat)
        /\ \A i \in 1..Dim(mat) :
              /\ Len(mat.values[i]) = Dim(mat)
              /\ \A j \in 1..Dim(mat) :
                    mat.values[i][j] = Cell(mat_full, mat.index[i], mat.index[j])
        /\ (Range(selected_fields) \cap Range(mat_full.index) = {}) => mat = EmptyMatrix

\* A request in another order than the index, with a label the matrix lacks.
C13_Witness ==
    /\ pc = "filter_returned"
    /\ selected_fields = <<Z, W, X>>
    /\ mat_full.index = <<X, Y, Z>>
    /\ mat.index = <<Z, X>>
    /\ mat.values[1][2] > 0
----------------------------------------------------------------------------
(* Properties of the page pipeline (SpecPage) *)

\* C14: apply_threshold sets every cell strictly below min_value to zero and
\* leaves every cell >= min_value and the order of the labels unchanged; for
\* min_value <= 1, the slider's 0 included, the result equals the input.
C14_ThresholdZeroesBelowMin ==
    [][(pc = "page_filtered" /\ pc' = "page_thresholded") =>
          /\ mat'.index = mat.index
          /\ Len(mat'.values) = Dim(mat)
          /\ \A i, j \in 1..Dim(mat) :
                /\ mat.values[i][j] < threshold => mat'.values[i][j] = 0
                /\ mat.values[i][j] >= threshold => mat'.values[i][j] = mat.values[i][j]
          /\ threshold <= 1 => mat' = mat]_vars

\* At threshold 2 a cell of 1 is zeroed next to a cell of 2 that is kept.
C14_Witness ==
    /\ pc = "page_thresholded"
    /\ threshold = 2
    /\ \E i, j \in 1..Dim(mat) : mat.values[i][j] = 2
    /\ \E i, j \in 1..Dim(mat) :
          mat.values[i][j] = 0 /\ Cell(mat_full, mat.index[i], mat.index[j]) = 1

\* row f of m has a cell above zero
HasLink(m, f) == \E y \in Range(m.index) : Cell(m, f, y) > 0

\* C15: the pruning step comes after apply_threshold, never before it, and
\* removes exactly the rows and columns without a non-zero cell (row sum
\* zero): the others stay, in their order, with their values.
C15_PruneAfterThreshold ==
    [][pc' = "page_pruned" =>
          /\ pc = "page_thresholded"
          /\ mat'.index = SelectSeq(mat.index, LAMBDA f : HasLink(mat, f))
          /\ Len(mat'.values) = Dim(mat')
          /\ \A i \in 1..Dim(mat') :
                /\ Len(mat'.values[i]) = Dim(mat')
                /\ \A j \in 1..Dim(mat') :
                      mat'.values[i][j] = Cell(mat, mat'.index[i], mat'.index[j])]_vars

\* Thresholding at 2 left one of three selected areas without a link, and
\* pruning removed it.
C15_Witness ==
    /\ pc = "page_pruned"
    /\ threshold = 2
    /\ Len(selected_fields) = 3
    /\ Dim(mat_full) = 3
    /\ Dim(mat) = 2

\* what the page displays for a base matrix, a selection and a threshold
Displayed(base, sel, mv) == Prune(apply_threshold(filter_fields(base, sel), mv))

\* C16: for the same base matrix and selection, a higher threshold gives a
\* display in which no cell is larger and no label is present that the
\* display for the lower threshold lacks.
C16_ThresholdMonotone ==
    pc = "page_shown" =>
        \A higher \in SliderValues :
            higher >= threshold =>
                LET d2 == Displayed(mat_full, selected_fields, higher)
                IN  /\ Range(d2.index) \subseteq Range(mat.index)
                    /\ \A x, y \in Range(mat.index) \cup Range(d2.index) :
                          Cell(d2, x, y) <= Cell(mat, x, y)

\* Three areas displayed at threshold 1, of which threshold 2 leaves two.
C16_Witness ==
    /\ pc = "page_shown"
    /\ threshold = 1
    /\ Dim(mat) = 3
    /\ Dim(Displayed(mat_full, selected_fields, 2)) = 2

\* C17: in the sort mode by group total (groups_desc) the areas are laid out
\* by descending row sum, areas of equal row sum in their original order, rows
\* and columns together: the arcs are a permutation of the rows, and the
\* matrix re-indexed by it is symmetric.
C17_GroupsByDescendingRowSum ==
    (pc = "page_shown" /\ shown = "chord" /\ sort_mode = "groups_desc") =>
        /\ Len(arcs) = Dim(mat)
        /\ Range(arcs) = 1..Dim(mat)
        /\ \A p, q \in 1..Len(arcs) :
              p < q =>
                  \/ SumSeq(mat.values[arcs[p]]) > SumSeq(mat.values[arcs[q]])
                  \/ /\ SumSeq(mat.values[arcs[p]]) = SumSeq(mat.values[arcs[q]])
                     /\ arcs[p] < arcs[q]
        /\ Symmetric(Take(mat, arcs))

\* Row sums 1, 2, 1: the second area first, then the first and the third,
\* which tie, in their original order.
C17_Witness ==
    /\ pc = "page_shown"
    /\ sort_mode = "groups_desc"
    /\ GroupSums(mat.values) = <<1, 2, 1>>
    /\ arcs = <<2, 1, 3>>

\* C19: an empty result is an informational state, not a failure: for every
\* selection and threshold the run ends in exactly one of two outcomes, the
\* informational message exactly when the final list of labels is empty, and
\* otherwise the chord diagram of a non-empty square matrix; filter,
\* threshold and pruning raise nothing.
C19_EmptyResultIsInformational ==
    /\ pc # "page_failed"
    /\ error = NoError
    /\ pc = "page_shown" =>
          /\ shown \in {"info", "chord"}
          /\ shown = "info" <=> mat.index = <<>>
          /\ shown = "chord" =>
                /\ Dim(mat) >= 1
                /\ Len(mat.values) = Dim(mat)
                /\ \A i \in 1..Dim(mat) : Len(mat.values[i]) = Dim(mat)

\* Areas are selected and the full matrix has links, but the threshold leaves
\* none: the informational message is shown.
C19_Witness ==
    /\ pc = "page_shown"
    /\ shown = "info"
    /\ selected_fields # <<>>
    /\ Dim(mat_full) = 3

\* C20: the transforms never change the base matrix and the display does not
\* depend on earlier widget values: once built, mat_full stays the same
\* through every step and every rerun after a widget change, and what is
\* displayed is the pruned, thresholded, filtered mat_full for the current
\* selection and threshold.
C20_DisplayFromBaseMatrix ==
    /\ [][pc # "page_first" => mat_full' = mat_full]_vars
    /\ [](pc = "page_shown" => mat = Displayed(mat_full, selected_fields, threshold))

\* A display after every widget was changed: another selection order,
\* threshold, palette and sort mode than the defaults.
C20_Witness ==
    /\ pc = "page_shown"
    /\ shown = "chord"
    /\ Len(selected_fields) = 3
    /\ selected_fields # all_fields
    /\ threshold = 1
    /\ palette = "paired"
    /\ sort_mode = "chords_desc"
----------------------------------------------------------------------------
(* Schema errors (SpecSchema) *)

\* the required columns the two headers lack
MissingDf == RequiredDf \ df_columns
MissingCen == RequiredCen \ cen_columns

\* C18: when a required column is absent (authors_full of the publications
\* table, full_name or Area_desc of the census table) the run ends with the
\* schema error, a ValueError whose message names the missing column(s) of the
\* table it is about, and it ends there before the roster is built or any
\* matrix is computed; a run gets past the tests only with every required
\* column present, and nothing else raises.
C18_SchemaErrorBeforeAnyWork ==
    /\ (MissingDf \cup MissingCen) # {} =>
          /\ name_to_field = NoRoster
          /\ mat_full = EmptyMatrix
          /\ pc \in {"page_load", "v0_load", "df_checked", "schema_failed"}
    /\ pc = "df_checked" => MissingDf = {}
    /\ pc = "schema_failed" =>
          /\ error.type = "ValueError"
          /\ error.missing # {}
          /\ error.missing = (IF MissingDf # {} THEN MissingDf ELSE MissingCen)
          /\ error.table = (IF MissingDf # {} THEN "df" ELSE "cen")
    /\ error # NoError => pc = "schema_failed"

\* A run stopped at the census test: the publications table is complete, the
\* census lacks both of its required columns, and the error names them.
C18_Witness ==
    /\ pc = "schema_failed"
    /\ MissingDf = {}
    /\ error = Raised("ValueError", "cen", {"full_name", "Area_desc"})
    /\ df # <<>>
----------------------------------------------------------------------------
(* The batch scripts and the lookup function do not touch the page *)

\* the tables, the matrices and the widgets of the page
pagevars == <<df, cen, name_to_field, mat_full, mat, raw, out, schemavars, uivars>>

PageIdle ==
    /\ WellFormedTables
    /\ WidgetDefaults
    /\ df = <<>>
    /\ cen = <<>>
    /\ name_to_field = NoRoster
    /\ mat_full = EmptyMatrix
    /\ mat = EmptyMatrix
    /\ raw = <<>>
    /\ out = <<>>

----------------------------------------------------------------------------
(* SpecExtract: runs of extract_keywords.py over one input file, each run  *)
(* ending normally or aborted by an exception of the API call               *)

MaxRows == 3
MaxRuns == 3

t == <<"t">>
u == <<"u">>

\* the cells of the title column: empty, blank, a title, the same title
\* followed by a space, another title
TitleCells == {<<>>, <<" ">>, t, <<"t", " ">>, u}

InputFiles == SeqsUpTo(TitleCells, MaxRows)

\* a row of the output file: writer.writerow({"title": ..., "keywords": ...})
OutputRow(title, keywords) == [title |-> title, keywords |-> JoinComma(keywords)]

\* a call of the API function: the run that made it, the title sent, and
\* whether it returned keywords
Call(r, title, ok) == [run |-> r, title |-> title, ok |-> ok]

\* what the model returns for a title: one keyword or two
KeywordLists == {<<<<"k">>>>, <<<<"k">>, <<"l">>>>}

\* Variant: the resume set is read from the column "keywords".
load_done_titles_wrong_column(output_path) ==
    {Strip(output_path[i].keywords) : i \in 1..Len(output_path)} \ {<<>>}

\* the stripped non-empty titles of the rows of the output file; no file and
\* an empty file give the empty set
load_done_titles(output_path) ==
    {Strip(output_path[i].title) : i \in 1..Len(output_path)} \ {<<>>}

\* title = (row.get(title_col) or "").strip() of the row the loop is at
CurrentTitle == Strip(input_rows[cursor + 1])

InitExtract ==
    /\ PageIdle
    /\ pc = "not_started"
    /\ input_rows \in InputFiles
    /\ output = <<>>
    /\ done = {}
    /\ cursor = 0
    /\ run = 0
    /\ requests = <<>>
    /\ result = Pending
    /\ counting_mode = "paper_level"
    /\ id_col = FALSE
    /\ attempt = 0
    /\ max_retries = 0
    /\ obj = Json("null", <<>>)
    /\ first_name = <<>>
    /\ last_name = <<>>

\* the variables the batch loop never writes
extractfixed == <<input_rows, counting_mode, id_col, attempt, max_retries, obj,
                  first_name, last_name>>

\* python3 extract_keywords.py ...: main up to the loop; done is read from
\* the output file as the previous runs left it
StartExtract ==
    /\ pc \in {"not_started", "finished", "aborted"}
    /\ run < MaxRuns
    /\ run' = run + 1
    /\ done' = load_done_titles(output)
    /\ cursor' = 0
    /\ result' = Pending
    /\ pc' = "running"
    /\ UNCHANGED <<output, requests, extractfixed, pagevars>>

\* iter_input_titles: a row whose stripped title is empty is not yielded
SkipEmptyTitle ==
    /\ pc = "running"
    /\ cursor < Len(input_rows)
    /\ CurrentTitle = <<>>
    /\ cursor' = cursor + 1
    /\ UNCHANGED <<pc, output, done, run, requests, result, extractfixed, pagevars>>

\* if title in done: skipped += 1; continue
SkipDoneTitle ==
    /\ pc = "running"
    /\ cursor < Len(input_rows)
    /\ CurrentTitle # <<>>
    /\ CurrentTitle \in done
    /\ cursor' = cursor + 1
    /\ UNCHANGED <<pc, output, done, run, requests, result, extractfixed, pagevars>>

\* kws = openrouter_extract_keywords(...); append_output_row; done.add
ExtractTitle ==
    /\ pc = "running"
    /\ cursor < Len(input_rows)
    /\ CurrentTitle # <<>>
    /\ CurrentTitle \notin done
    /\ \E kws \in KeywordLists :
          output' = Append(output, OutputRow(CurrentTitle, kws))
    /\ requests' = Append(requests, Call(run, CurrentTitle, TRUE))
    /\ done' = done \cup {CurrentTitle}
    /\ cursor' = cursor + 1
    /\ UNCHANGED <<pc, run, result, extractfixed, pagevars>>

\* openrouter_extract_keywords raises: the exception leaves main, nothing is
\* written for the title
ExtractRaises ==
    /\ pc = "running"
    /\ cursor < Len(input_rows)
    /\ CurrentTitle # <<>>
    /\ CurrentTitle \notin done
    /\ requests' = Append(requests, Call(run, CurrentTitle, FALSE))
    /\ result' \in {Outcome("raised", e, <<>>) : e \in {"HTTPError", "ValueError"}}
    /\ pc' = "aborted"
    /\ UNCHANGED <<output, done, cursor, run, extractfixed, pagevars>>

\* the loop is exhausted: print("Done. ...")
FinishExtract ==
    /\ pc = "running"
    /\ cursor = Len(input_rows)
    /\ pc' = "finished"
    /\ UNCHANGED <<output, done, cursor, run, requests, result, extractfixed, pagevars>>

NextExtract ==
    \/ StartExtract
    \/ SkipEmptyTitle
    \/ SkipDoneTitle
    \/ ExtractTitle
    \/ ExtractRaises
    \/ FinishExtract

SpecExtract == InitExtract /\ [][NextExtract]_vars

\* the titles of the rows of the output file
TitlesWritten == {output[i].title : i \in 1..Len(output)}

\* C22: extract_keywords is resumable: a title already present in the output
\* file is skipped without an API call and without a new row, and over any
\* sequence of runs on the same input, runs aborted by an API failure
\* included, no title is written to the output twice.
C22_ResumeSkipsWrittenTitles ==
    /\ [][(pc = "running" /\ cursor < Len(input_rows) /\ CurrentTitle \in TitlesWritten)
            => (requests' = requests /\ output' = output)]_vars
    /\ [](\A i, j \in 1..Len(output) : output[i].title = output[j].title => i = j)

\* A second run, after a first run that wrote t and was then aborted by the
\* API call for u, has skipped t, written u and finished.
C22_Witness ==
    /\ pc = "finished"
    /\ run = 2
    /\ input_rows = <<<<"t", " ">>, u, t>>
    /\ requests = <<Call(1, t, TRUE), Call(1, u, FALSE), Call(2, u, TRUE)>>
    /\ Len(output) = 2
----------------------------------------------------------------------------
(* SpecClassify: runs of paper_classification.py over one input file, with *)
(* or without --id-col                                                      *)

MaxInput == 2
MaxClassifyRuns == 2

IdCells == {<<>>, <<"1">>, <<"2">>}

\* a row of the input CSV: the column named by --id-col and the title column
InputRow(id, title) == [id |-> id, title |-> title]

InputRows == {InputRow(id, title) : id \in IdCells, title \in {<<>>, <<" ">>, t, u}}

ClassifyInputs == SeqsUpTo(InputRows, MaxInput)

\* row_out = dict(row); row_out.update({... "pred_rationale": rat})
ClassifiedRow(row, rat) == [id |-> row.id, title |-> row.title, pred_rationale |-> rat]

\* one iteration of the loop of main: the run, the position of the input
\* row, and what was done with it
Iteration(r, i, what) == [run |-> r, index |-> i, what |-> what]

\* key_field = args.id_col or args.title_col
KeyOf(row) == IF id_col THEN row.id ELSE row.title

\* the stripped non-empty values of the key column of the output file
load_done_keys(output_path) ==
    {Strip(KeyOf(output_path[i])) : i \in 1..Len(output_path)} \ {<<>>}

CurrentRow == input_rows[cursor + 1]

InitClassify ==
    /\ PageIdle
    /\ pc = "not_started"
    /\ input_rows \in ClassifyInputs
    /\ id_col \in BOOLEAN
    /\ output = <<>>
    /\ done = {}
    /\ cursor = 0
    /\ run = 0
    /\ requests = <<>>
    /\ result = Pending
    /\ counting_mode = "paper_level"
    /\ attempt = 0
    /\ max_retries = 0
    /\ obj = Json("null", <<>>)
    /\ first_name = <<>>
    /\ last_name = <<>>

\* if not rows: raise SystemExit("Input CSV is empty.")
EmptyInput ==
    /\ pc \in {"not_started", "exited"}
    /\ run < MaxClassifyRuns
    /\ input_rows = <<>>
    /\ run' = run + 1
    /\ result' = Outcome("raised", "SystemExit", <<>>)
    /\ pc' = "exited"
    /\ UNCHANGED <<output, done, cursor, requests, extractfixed, pagevars>>

\* main up to the loop: done = load_done_keys(args.output, key_field)
StartClassify ==
    /\ pc \in {"not_started", "finished", "aborted"}
    /\ run < MaxClassifyRuns
    /\ input_rows # <<>>
    /\ run' = run + 1
    /\ done' = load_done_keys(output)
    /\ cursor' = 0
    /\ result' = Pending
    /\ pc' = "running"
    /\ UNCHANGED <<output, requests, extractfixed, pagevars>>

\* if not title: append_row(... "Missing title"); continue
\* (this test comes before the test of done)
MissingTitle ==
    /\ pc = "running"
    /\ cursor < Len(input_rows)
    /\ Strip(CurrentRow.title) = <<>>
    /\ output' = Append(output, ClassifiedRow(CurrentRow, <<"M">>))
    /\ requests' = Append(requests, Iteration(run, cursor + 1, "missing_title"))
    /\ cursor' = cursor + 1
    /\ UNCHANGED <<pc, done, run, result, extractfixed, pagevars>>

\* if key and key in done: skipped += 1; continue
SkipDoneKey ==
    /\ pc = "running"
    /\ cursor < Len(input_rows)
    /\ Strip(CurrentRow.title) # <<>>
    /\ Strip(KeyOf(CurrentRow)) # <<>>
    /\ Strip(KeyOf(CurrentRow)) \in done
    /\ requests' = Append(requests, Iteration(run, cursor + 1, "skipped"))
    /\ cursor' = cursor + 1
    /\ UNCHANGED <<pc, output, done, run, result, extractfixed, pagevars>>

\* openrouter_classify_title returns; append_row; if key: done.add(key)
ClassifyRow ==
    /\ pc = "running"
    /\ cursor < Len(input_rows)
    /\ Strip(CurrentRow.title) # <<>>
    /\ ~(Strip(KeyOf(CurrentRow)) # <<>> /\ Strip(KeyOf(CurrentRow)) \in done)
    /\ output' = Append(output, ClassifiedRow(CurrentRow, <<"r">>))
    /\ requests' = Append(requests, Iteration(run, cursor + 1, "classified"))
    /\ done' = IF Strip(KeyOf(CurrentRow)) # <<>>
               THEN done \cup {Strip(KeyOf(CurrentRow))}
               ELSE done
    /\ cursor' = cursor + 1
    /\ UNCHANGED <<pc, run, result, extractfixed, pagevars>>

\* openrouter_classify_title raises: the exception leaves main
ClassifyRaises ==
    /\ pc = "running"
    /\ cursor < Len(input_rows)
    /\ Strip(CurrentRow.title) # <<>>
    /\ ~(Strip(KeyOf(CurrentRow)) # <<>> /\ Strip(KeyOf(CurrentRow)) \in done)
    /\ requests' = Append(requests, Iteration(run, cursor + 1, "raised"))
    /\ result' \in {Outcome("raised", e, <<>>) : e \in {"HTTPError", "ValueError"}}
    /\ pc' = "aborted"
    /\ UNCHANGED <<output, done, cursor, run, extractfixed, pagevars>>

\* the loop is exhausted: print("Done. ...")
FinishClassify ==
    /\ pc = "running"
    /\ cursor = Len(input_rows)
    /\ pc' = "finished"
    /\ UNCHANGED <<output, done, cursor, run, requests, result, extractfixed, pagevars>>

NextClassify ==
    \/ EmptyInput
    \/ StartClassify
    \/ MissingTitle
    \/ SkipDoneKey
    \/ ClassifyRow
    \/ ClassifyRaises
    \/ FinishClassify

SpecClassify == InitClassify /\ [][NextClassify]_vars

\* the iteration appended a row to the output file
Wrote(e) == e.what \in {"missing_title", "classified"}

\* the iteration sent the title to the API
Sent(e) == e.what \in {"classified", "raised"}

\* C23: paper_classification is resumable: an input row that an earlier run
\* wrote to the output is, in a later run, neither appended again nor sent to
\* the API again, whether or not --id-col is given and whether or not the row
\* has a title.
C23_NoRowWrittenOrSentAgain ==
    \A i, j \in 1..Len(requests) :
        (/\ requests[i].run < requests[j].run
         /\ requests[i].index = requests[j].index
         /\ Wrote(requests[i]))
        => (~Wrote(requests[j]) /\ ~Sent(requests[j]))

\* C23, rows the resume set can recognise: with a non-empty title and a
\* non-empty key, a row written by an earlier run is skipped by every later
\* run.
C23_HoldsForKeyedTitledRows ==
    \A i, j \in 1..Len(requests) :
        (/\ requests[i].run < requests[j].run
         /\ requests[i].index = requests[j].index
         /\ Wrote(requests[i])
         /\ Strip(input_rows[requests[i].index].title) # <<>>
         /\ Strip(KeyOf(input_rows[requests[i].index])) # <<>>)
        => requests[j].what = "skipped"

\* A second run has skipped a row that the first run classified.
C23_KeyedRowSkipped ==
    /\ run = 2
    /\ pc = "finished"
    /\ \E i, j \in 1..Len(requests) :
          /\ requests[i].run = 1 /\ requests[i].what = "classified"
          /\ requests[j].run = 2 /\ requests[j].what = "skipped"
          /\ requests[i].index = requests[j].index
----------------------------------------------------------------------------
(* SpecFetch: one call of functions.fetch_ssd; the two sites answer each   *)
(* request with any page, or not at all                                     *)

MaxTableRows == 2

\* the string "NULL"
NotFound == <<"N", "U", "L", "L">>

\* a <tr> of the result table: the number of its <td> cells, and the text of
\* cols[5] and cols[6]
Tr(ncols, ssd_2024, department) == [ncols |-> ncols, ssd_2024 |-> ssd_2024, department |-> department]

TableRows ==
    {Tr(3, <<>>, <<>>),
     Tr(7, <<"S">>, <<"D">>),
     Tr(7, <<"(", "w", ")">>, <<"D">>),
     Tr(8, <<"(", ")">>, <<"E">>)}

\* what a GET can produce: a RequestException (raise_for_status included), a
\* page without table.risultati, a page with the table and its <tr> rows
Page(kind, trs) == [kind |-> kind, trs |-> trs]

Pages ==
    {Page("request_exception", <<>>), Page("no_table", <<>>)}
    \cup {Page("table", trs) : trs \in SeqsUpTo(TableRows, MaxTableRows)}

IsWordChar(ch) == ch \notin {"(", ")", " ", "\t", ","}

\* re.search(r"\(\w+\)", s)
HasParenWord(s) ==
    \E i, j \in 1..Len(s) :
        /\ i + 1 < j
        /\ s[i] = "("
        /\ s[j] = ")"
        /\ \A k \in (i + 1)..(j - 1) : IsWordChar(s[k])

\* the loop over rows: the first row with at least 7 cells decides
RECURSIVE FirstSsd(_)
FirstSsd(trs) ==
    IF trs = <<>> THEN NotFound
    ELSE IF Head(trs).ncols >= 7
         THEN (IF HasParenWord(Head(trs).ssd_2024)
               THEN Head(trs).department
               ELSE Head(trs).ssd_2024)
         ELSE FirstSsd(Tail(trs))

\* Variant: the RequestException is not caught.
extract_ssd_from_url_uncaught(page) ==
    IF page.kind = "request_exception" THEN Outcome("raised", "RequestException", <<>>)
    ELSE IF page.kind = "no_table" THEN Outcome("returned", "none", NotFound)
    ELSE Outcome("returned", "none",
                 FirstSsd(IF page.trs = <<>> THEN <<>> ELSE Tail(page.trs)))

\* _extract_ssd_from_url, given the page the GET produced
extract_ssd_from_url(page) ==
    IF page.kind = "request_exception" THEN Outcome("returned", "none", NotFound)
    ELSE IF page.kind = "no_table" THEN Outcome("returned", "none", NotFound)
    ELSE Outcome("returned", "none",
                 FirstSsd(IF page.trs = <<>> THEN <<>> ELSE Tail(page.trs)))

\* (name or "").strip(); None is the missing value
StripOrEmpty(name) == IF name = NULL THEN <<>> ELSE Strip(name)

NameArgs == {NULL, <<>>, <<" ">>, <<"r">>, <<" ", "r">>}

\* a request sent: the site, the page that came back and what the lookup
\* made of it
Lookup(site, page, outcome) == [site |-> site, page |-> page, outcome |-> outcome]

InitFetch ==
    /\ PageIdle
    /\ pc = "called"
    /\ first_name \in NameArgs
    /\ last_name \in NameArgs
    /\ requests = <<>>
    /\ result = Pending
    /\ counting_mode = "paper_level"
    /\ input_rows = <<>>
    /\ output = <<>>
    /\ done = {}
    /\ cursor = 0
    /\ run = 0
    /\ id_col = FALSE
    /\ attempt = 0
    /\ max_retries = 0
    /\ obj = Json("null", <<>>)

\* the variables fetch_ssd never writes
fetchfixed == <<counting_mode, input_rows, output, done, cursor, run, id_col,
                attempt, max_retries, obj, first_name, last_name>>

\* if not last_name: return "NULL"
NoLastName ==
    /\ pc = "called"
    /\ StripOrEmpty(last_name) = <<>>
    /\ result' = Outcome("returned", "none", NotFound)
    /\ pc' = "returned"
    /\ UNCHANGED <<requests, fetchfixed, pagevars>>

\* 1) ssd_value = _extract_ssd_from_url(docenti_url_template.format(last_name));
\* the function returns unless the fallback applies
Docenti ==
    /\ pc = "called"
    /\ StripOrEmpty(last_name) # <<>>
    /\ \E page \in Pages :
          LET o == extract_ssd_from_url(page)
          IN  /\ requests' = Append(requests, Lookup("DOCENTI", page, o))
              /\ IF o.kind = "raised"
                 THEN result' = o /\ pc' = "raised"
                 ELSE IF o.value = NotFound /\ StripOrEmpty(first_name) # <<>>
                 THEN result' = result /\ pc' = "docenti_null"
                 ELSE result' = o /\ pc' = "returned"
    /\ UNCHANGED <<fetchfixed, pagevars>>

\* 2) ssd_value = _extract_ssd_from_url(assegnisti_url_template.format(...))
Assegnisti ==
    /\ pc = "docenti_null"
    /\ \E page \in Pages :
          LET o == extract_ssd_from_url(page)
          IN  /\ requests' = Append(requests, Lookup("ASSEGNISTI", page, o))
              /\ result' = o
              /\ pc' = IF o.kind = "raised" THEN "raised" ELSE "returned"
    /\ UNCHANGED <<fetchfixed, pagevars>>

NextFetch == NoLastName \/ Docenti \/ Assegnisti

SpecFetch == InitFetch /\ [][NextFetch]_vars

\* C24: fetch_ssd asks DOCENTI first and ASSEGNISTI only as a fallback: an
\* ASSEGNISTI request is the second request, sent only after the DOCENTI
\* lookup gave "NULL" and only with a non-empty first name; a blank or missing
\* last name returns "NULL" without any request; a lookup whose request fails
\* or whose page has no result table gives "NULL", and no call ends with an
\* exception.
C24_DocentiFirstAssegnistiFallback ==
    /\ \A k \in 1..Len(requests) :
          /\ k = 1 => requests[k].site = "DOCENTI"
          /\ requests[k].site = "ASSEGNISTI" =>
                /\ k = 2
                /\ requests[1].outcome.value = NotFound
                /\ StripOrEmpty(first_name) # <<>>
          /\ requests[k].page.kind \in {"request_exception", "no_table"} =>
                requests[k].outcome = Outcome("returned", "none", NotFound)
    /\ Len(requests) <= 2
    /\ StripOrEmpty(last_name) = <<>> =>
          /\ requests = <<>>
          /\ pc = "returned" => result = Outcome("returned", "none", NotFound)
    /\ result.kind # "raised"
    /\ pc # "raised"

\* The DOCENTI request failed, the fallback request found a row whose SSD
\* cell holds a department-like "(w)", and the department was returned.
C24_Witness ==
    /\ pc = "returned"
    /\ Len(requests) = 2
    /\ requests[1].site = "DOCENTI"
    /\ requests[1].page.kind = "request_exception"
    /\ requests[2].site = "ASSEGNISTI"
    /\ requests[2].page.kind = "table"
    /\ result.value = <<"D">>
    /\ first_name = <<" ", "r">>
----------------------------------------------------------------------------
(* SpecV0: a run of the script of app_V0.py: the variant builder with its  *)
(* counting mode, then threshold, pruning and rendering                     *)

\* a, b = sorted((f1, f2))
SortedPair(pair) ==
    IF StrLess(pair[2], pair[1]) THEN <<pair[2], pair[1]>> ELSE pair

\* the pairs one publication adds to counts, by mode (fields has at least
\* two entries)
PairsByMode(fields, mode) ==
    IF mode = "pairwise"
    THEN LET cmb == Combinations2(fields)
         IN  [i \in 1..Len(cmb) |-> SortedPair(cmb[i])]
    ELSE Combinations2(Sorted(Range(fields)))

\* the counting loop of collaboration_matrix
CountPairsByMode(fields_per_paper, mode) ==
    LET F[i \in 0..Len(fields_per_paper)] ==
            IF i = 0 THEN [k \in {} |-> 0]
            ELSE IF Len(fields_per_paper[i]) < 2 THEN F[i - 1]
            ELSE AddPairs(F[i - 1], PairsByMode(fields_per_paper[i], mode))
    IN  F[Len(fields_per_paper)]

\* collaboration_matrix(df, cen, mode) of app_V0.py, mode one of "pairwise",
\* "paper_level"
collaboration_matrix(df_papers, cen_df, mode) ==
    LET ntf == build_name_to_field(cen_df)
        fields_per_paper == [p \in 1..Len(df_papers) |-> FieldsOfPaper(ntf, df_papers[p])]
    IN  MatrixOfCounts(CountPairsByMode(fields_per_paper, mode))

\* nonzero = (mat.sum(axis=1) > 0); mat = mat.loc[nonzero, nonzero]
PruneV0(m) ==
    LET P[i \in 0..Dim(m)] ==
            IF i = 0 THEN <<>>
            ELSE IF SumSeq(m.values[i]) > 0 THEN Append(P[i - 1], i) ELSE P[i - 1]
    IN  Take(m, P[Dim(m)])

CountingModes == {"pairwise", "paper_level"}

V0Tables ==
    SeqsUpTo({JoinComma(<<a, b>>), JoinComma(<<b, c>>), JoinComma(<<a, b, c>>)}, MaxPubs)

\* the first run: mode is "pairwise" (index=0), the slider is at 1
InitV0 ==
    /\ WellFormedTables
    /\ pc = "v0_start"
    /\ counting_mode = "pairwise"
    /\ input_rows = <<>>
    /\ output = <<>>
    /\ done = {}
    /\ cursor = 0
    /\ run = 0
    /\ id_col = FALSE
    /\ attempt = 0
    /\ max_retries = 0
    /\ requests = <<>>
    /\ result = Pending
    /\ obj = Json("null", <<>>)
    /\ first_name = <<>>
    /\ last_name = <<>>
    /\ df \in V0Tables
    /\ cen \in CensusTables
    /\ name_to_field = NoRoster
    /\ mat_full = EmptyMatrix
    /\ mat = EmptyMatrix
    /\ raw = <<>>
    /\ out = <<>>
    /\ selected_fields = <<>>
    /\ threshold = 1
    /\ palette = "tableau10"
    /\ sort_mode = "none"
    /\ shown = "none"
    /\ arcs = <<>>

v0fixed == <<df, cen, name_to_field, raw, out, schemavars, input_rows, output, done,
             cursor, run, id_col, attempt, max_retries, requests, result, obj,
             first_name, last_name, selected_fields, palette>>

\* mat = collaboration_matrix(df=df, cen=cen, mode=mode)
V0Build ==
    /\ pc = "v0_start"
    /\ mat_full' = collaboration_matrix(df, cen, counting_mode)
    /\ mat' = mat_full'
    /\ pc' = "v0_built"
    /\ UNCHANGED <<v0fixed, counting_mode, threshold, sort_mode, shown, arcs>>

\* mat = apply_threshold(mat, min_value=min_value)
V0Threshold ==
    /\ pc = "v0_built"
    /\ mat' = apply_threshold(mat, threshold)
    /\ pc' = "v0_thresholded"
    /\ UNCHANGED <<v0fixed, mat_full, counting_mode, threshold, sort_mode, shown, arcs>>

\* remove all-zero rows/cols after thresholding
V0Prune ==
    /\ pc = "v0_thresholded"
    /\ mat' = PruneV0(mat)
    /\ pc' = "v0_pruned"
    /\ UNCHANGED <<v0fixed, mat_full, counting_mode, threshold, sort_mode, shown, arcs>>

\* st.info(...) without labels, the chord diagram otherwise
V0Render ==
    /\ pc = "v0_pruned"
    /\ IF mat.index = <<>>
       THEN shown' = "info" /\ arcs' = <<>>
       ELSE shown' = "chord" /\ arcs' = GroupIndex(mat.values, sort_mode)
    /\ pc' = "v0_shown"
    /\ UNCHANGED <<v0fixed, mat_full, mat, counting_mode, threshold, sort_mode>>

\* the user changes the counting mode, the threshold or the sorting: the
\* script runs again from the top
V0Rerun ==
    /\ pc = "v0_shown"
    /\ \E m \in CountingModes, v \in 0..MaxMin, sm \in SortModes :
          /\ <<m, v, sm>> # <<counting_mode, threshold, sort_mode>>
          /\ counting_mode' = m
          /\ threshold' = v
          /\ sort_mode' = sm
    /\ mat_full' = EmptyMatrix
    /\ mat' = EmptyMatrix
    /\ shown' = "none"
    /\ arcs' = <<>>
    /\ pc' = "v0_start"
    /\ UNCHANGED v0fixed

NextV0 == V0Build \/ V0Threshold \/ V0Prune \/ V0Render \/ V0Rerun

SpecV0 == InitV0 /\ [][NextV0]_vars

\* C25: the matrix returned by collaboration_matrix of app_V0 has a zero
\* diagonal in mode "pairwise" and in mode "paper_level", also when a
\* publication has two or more authors of the same area.
C25_ZeroDiagonalInBothModes ==
    pc = "v0_built" => ZeroDiagonal(mat_full)

\* C25 restricted to mode "paper_level": the diagonal is zero.
C25_HoldsInPaperLevelMode ==
    (pc = "v0_built" /\ counting_mode = "paper_level") => ZeroDiagonal(mat_full)

\* In mode "pairwise" a publication by two authors of area X has put 2 on the
\* diagonal cell of X.
C25_DiagonalCounted ==
    /\ pc = "v0_built"
    /\ counting_mode = "pairwise"
    /\ df = <<JoinComma(<<a, b>>)>>
    /\ mat_full = [index |-> <<X>>, values |-> <<<<2>>>>]
----------------------------------------------------------------------------
(* SpecKeywords: validate_keywords of extract_keywords.py on the objects   *)
(* extract_json can return                                                  *)

MaxKeywords == 5

\* Optional[...]: None, or a value
None == [some |-> FALSE, value |-> <<>>]
Some(v) == [some |-> TRUE, value |-> v]

\* str(k) of a JSON scalar: a string is itself, a number its digits, null
\* is "None"
PyStr(k) == IF k.type = "null" THEN <<"N", "o", "n", "e">> ELSE k.items

\* " ".join(s.strip().split())
normalise_kw(s) == JoinSpace(SplitWs(Strip(s)))

\* one iteration of the loop over kws; acc is [cleaned, seen], fold is the
\* key function (str.casefold)
KeepKeyword(acc, k, fold) ==
    LET kw == normalise_kw(PyStr(k))
    IN  IF Len(acc.cleaned) = 4 THEN acc
        ELSE IF kw = <<>> THEN acc
        ELSE IF fold[kw] \in acc.seen THEN acc
        ELSE [cleaned |-> Append(acc.cleaned, kw), seen |-> acc.seen \cup {fold[kw]}]

\* the loop over kws, from cleaned = [] and seen = set()
CleanKeywords(kws, fold) ==
    LET F[i \in 0..Len(kws)] ==
            IF i = 0 THEN [cleaned |-> <<>>, seen |-> {}]
            ELSE KeepKeyword(F[i - 1], kws[i], fold)
    IN  F[Len(kws)].cleaned

\* the keyword strings normalise_kw can produce from kws, with their keys
Casefold(kws) == [kw \in {normalise_kw(PyStr(kws[i])) : i \in 1..Len(kws)} |-> Lower(kw)]

\* Variant: seen holds the keywords as written (key = k).
validate_keywords_case_sensitive(o) ==
    IF o.type # "dict" THEN None
    ELSE IF "keywords" \notin DOMAIN o.items THEN None
    ELSE IF o.items.keywords.type # "list" THEN None
    ELSE LET kws == o.items.keywords.items
             cleaned == CleanKeywords(kws,
                            [kw \in {normalise_kw(PyStr(kws[i])) : i \in 1..Len(kws)} |-> kw])
         IN  IF Len(cleaned) >= 1 /\ Len(cleaned) <= 4 THEN Some(cleaned) ELSE None

validate_keywords(o) ==
    IF o.type # "dict" THEN None
    ELSE IF "keywords" \notin DOMAIN o.items THEN None
    ELSE IF o.items.keywords.type # "list" THEN None
    ELSE LET kws == o.items.keywords.items
             cleaned == CleanKeywords(kws, Casefold(kws))
         IN  IF Len(cleaned) >= 1 /\ Len(cleaned) <= 4 THEN Some(cleaned) ELSE None

\* entries of a "keywords" list: blank, " a", "A", "b", "c", "a  b", 7
KeywordEntries ==
    {Json("str", <<" ">>), Json("str", <<" ", "a">>), Json("str", A), Json("str", b),
     Json("str", c), Json("str", <<"a", " ", " ", "b">>), Json("int", <<"7">>)}

\* {"keywords": v}
KeywordsDict(v) == Json("dict", [keywords |-> v])

KeywordObjects ==
    {Json("null", <<>>), Json("list", <<>>), Json("str", a),
     Json("dict", [other |-> Json("list", <<>>)]),
     KeywordsDict(Json("str", a)), KeywordsDict(Json("null", <<>>))}
    \cup {KeywordsDict(Json("list", l)) : l \in SeqsUpTo(KeywordEntries, MaxKeywords)}

InitKeywords ==
    /\ PageIdle
    /\ pc = "object"
    /\ obj \in KeywordObjects
    /\ result = Pending
    /\ counting_mode = "paper_level"
    /\ input_rows = <<>>
    /\ output = <<>>
    /\ done = {}
    /\ cursor = 0
    /\ run = 0
    /\ id_col = FALSE
    /\ attempt = 0
    /\ max_retries = 0
    /\ requests = <<>>
    /\ first_name = <<>>
    /\ last_name = <<>>

\* kws = validate_keywords(obj)
Validate ==
    /\ pc = "object"
    /\ result' = Outcome("returned", "none", validate_keywords(obj))
    /\ pc' = "validated"
    /\ UNCHANGED <<obj, counting_mode, input_rows, output, done, cursor, run, id_col,
                   attempt, max_retries, requests, first_name, last_name, pagevars>>

NextKeywords == Validate

SpecKeywords == InitKeywords /\ [][NextKeywords]_vars

\* obj is a dict whose "keywords" is a list
HasKeywordList == obj.type = "dict" /\ "keywords" \in DOMAIN obj.items
                  /\ obj.items.keywords.type = "list"

\* the entries of kws, each as a whitespace-normalised string
Normalised(kws) == [i \in 1..Len(kws) |-> normalise_kw(PyStr(kws[i]))]

\* positions of the non-empty entries of n that differ, ignoring case, from
\* every earlier entry
FirstOccurrences(n) ==
    LET low == [i \in 1..Len(n) |-> Lower(n[i])]
    IN  {i \in 1..Len(n) : n[i] # <<>> /\ \A j \in 1..(i - 1) : low[j] # low[i]}

\* the first four positions of a set of positions
FirstFour(positions) ==
    {i \in positions : Cardinality({j \in positions : j < i}) < 4}

\* C28: validate_keywords returns None or a list of 1 to 4 keywords, none
\* empty, no two equal ignoring case: the first (at most four) non-empty
\* whitespace-normalised entries of obj["keywords"] that are distinct ignoring
\* case, in their order; None when obj is not a dict, "keywords" is not a
\* list, or no entry is non-empty.
C28_FirstFourDistinctKeywords ==
    pc = "validated" =>
        LET r == result.value
        IN  IF ~HasKeywordList THEN r = None
            ELSE LET n == Normalised(obj.items.keywords.items)
                     four == FirstFour(FirstOccurrences(n))
                 IN  /\ four = {} <=> r = None
                     /\ r # None =>
                           /\ Len(r.value) \in 1..4
                           /\ \A i \in 1..Len(r.value) : r.value[i] # <<>>
                           /\ \A i, j \in 1..Len(r.value) :
                                 Lower(r.value[i]) = Lower(r.value[j]) => i = j
                           /\ Len(r.value) = Cardinality(four)
                           /\ \A k \in four :
                                 r.value[Cardinality({j \in four : j < k}) + 1] = n[k]

\* The list [" a", "b", "c", "a  b", 7] has given ["a", "b", "c", "a b"]: the
\* fifth distinct keyword is left out.
C28_Witness ==
    /\ pc = "validated"
    /\ obj = KeywordsDict(Json("list", <<Json("str", <<" ", "a">>), Json("str", b),
                 Json("str", c), Json("str", <<"a", " ", " ", "b">>), Json("int", <<"7">>)>>))
    /\ result.value = Some(<<a, b, c, <<"a", " ", "b">>>>)
----------------------------------------------------------------------------
(* SpecRetry: one call of openrouter_extract_keywords or of                *)
(* openrouter_classify_title; the API answers every request in any way      *)

MaxRetries == 4
RationaleMax == 240

\* the ids of CATEGORIES
valid_ids == {<<"C", d>> : d \in {"1", "2", "3", "4", "5", "6", "7", "8"}}

\* float(conf), in thousandths: a JSON number (held as a one-element tuple)
\* converts, null and a list raise (TypeError)
FloatOf(conf) == IF conf.type = "number" THEN Some(conf.items[1]) ELSE None

\* obj.get(key): JSON null stands for Python None
DictGet(o, key) == IF key \in DOMAIN o.items THEN o.items[key] ELSE Json("null", <<>>)

\* validate_prediction of paper_classification.py
validate_prediction(o) ==
    IF o.type # "dict" THEN None
    ELSE LET cid == DictGet(o, "category_id")
             conf == DictGet(o, "confidence")
             rat == IF "rationale" \in DOMAIN o.items THEN o.items.rationale
                    ELSE Json("str", <<>>)
             text == normalise_kw(PyStr(rat))
         IN  IF cid.type # "str" \/ cid.items \notin valid_ids THEN None
             ELSE IF ~FloatOf(conf).some THEN None
             ELSE IF ~(0 <= FloatOf(conf).value /\ FloatOf(conf).value <= 1000) THEN None
             ELSE Some([category_id |-> cid.items,
                        confidence  |-> FloatOf(conf).value,
                        rationale   |-> SubSeq(text, 1, IF Len(text) < RationaleMax
                                                        THEN Len(text) ELSE RationaleMax)])

\* {"category_id": ..., "confidence": ..., "rationale": ...}
Prediction(cid, conf, rat) ==
    Json("dict", [category_id |-> cid, confidence |-> conf, rationale |-> rat])

\* what a POST can bring: status 429; another error status (raise_for_status
\* raises HTTPError); no response (requests.post raises); a body without
\* choices[0].message.content (r.json() or the subscripts raise); a content,
\* with the object extract_json makes of it (null: nothing parseable)
Response(kind, body) == [kind |-> kind, body |-> body]

Contents(function) ==
    IF function = "extract_keywords"
    THEN {Json("null", <<>>), Json("list", <<>>),
          KeywordsDict(Json("list", <<Json("str", <<" ">>)>>)),
          KeywordsDict(Json("list", <<Json("str", <<" ", "a">>), Json("str", A)>>))}
    ELSE {Json("null", <<>>),
          Prediction(Json("str", <<"C", "9">>), Json("number", <<500>>), Json("str", <<"r">>)),
          Prediction(Json("str", <<"C", "1">>), Json("number", <<1001>>), Json("str", <<"r">>)),
          Prediction(Json("str", <<"C", "1">>), Json("null", <<>>), Json("str", <<"r">>)),
          Prediction(Json("str", <<"C", "1">>), Json("number", <<500>>), Json("str", <<" ", "r">>))}

Responses(function) ==
    {Response(k, Json("null", <<>>)) : k \in {"429", "http_error", "no_response", "bad_body"}}
    \cup {Response("content", o) : o \in Contents(function)}

\* the validator of the function the call is in
Validated(function, o) ==
    IF function = "extract_keywords" THEN validate_keywords(o) ELSE validate_prediction(o)

\* what the body of the try block does with a response other than 429:
\* the value it returns or the exception it raises
TryBody(function, response) ==
    IF response.kind = "http_error" THEN Outcome("raised", "HTTPError", None)
    ELSE IF response.kind = "no_response" THEN Outcome("raised", "ConnectionError", None)
    ELSE IF response.kind = "bad_body" THEN Outcome("raised", "KeyError", None)
    ELSE IF response.body.type = "null" THEN Outcome("raised", "ValueError", None)
    ELSE IF ~Validated(function, response.body).some THEN Outcome("raised", "ValueError", None)
    ELSE Outcome("returned", "none", Validated(function, response.body))

InitRetry ==
    /\ PageIdle
    /\ pc \in {"extract_keywords", "classify_title"}
    /\ max_retries \in 1..MaxRetries
    /\ attempt = 0
    /\ requests = <<>>
    /\ result = Outcome("pending", "none", None)
    /\ counting_mode = "paper_level"
    /\ input_rows = <<>>
    /\ output = <<>>
    /\ done = {}
    /\ cursor = 0
    /\ run = 0
    /\ id_col = FALSE
    /\ obj = Json("null", <<>>)
    /\ first_name = <<>>
    /\ last_name = <<>>

retryfixed == <<counting_mode, input_rows, output, done, cursor, run, id_col,
                max_retries, obj, first_name, last_name>>

\* the for loop moves on to the next attempt; after the last one the loop
\* ends and the statement after it runs: raise RuntimeError(...)
Continue ==
    IF attempt + 1 < max_retries
    THEN attempt' = attempt + 1 /\ UNCHANGED <<pc, result>>
    ELSE /\ attempt' = attempt
         /\ result' = Outcome("raised", "RuntimeError", None)
         /\ pc' = "raised"

\* Variant: a validated result is not returned, the loop goes on.
AttemptWithoutReturn ==
    /\ pc \in {"extract_keywords", "classify_title"}
    /\ attempt < max_retries
    /\ \E response \in Responses(pc) :
          /\ requests' = Append(requests, response)
          /\ IF response.kind = "429" THEN Continue
             ELSE LET o == TryBody(pc, response)
                  IN  IF o.kind = "raised" /\ attempt = max_retries - 1
                      THEN result' = o /\ pc' = "raised" /\ attempt' = attempt
                      ELSE Continue
    /\ UNCHANGED <<retryfixed, pagevars>>

\* one iteration of the retry loop: the POST, then continue (429), return
\* (validated result), raise (exception in the last attempt) or sleep and
\* go on (exception before the last attempt)
Attempt ==
    /\ pc \in {"extract_keywords", "classify_title"}
    /\ attempt < max_retries
    /\ \E response \in Responses(pc) :
          /\ requests' = Append(requests, response)
          /\ IF response.kind = "429" THEN Continue
             ELSE LET o == TryBody(pc, response)
                  IN  IF o.kind = "returned"
                      THEN result' = o /\ pc' = "returned" /\ attempt' = attempt
                      ELSE IF attempt = max_retries - 1
                      THEN result' = o /\ pc' = "raised" /\ attempt' = attempt
                      ELSE Continue
    /\ UNCHANGED <<retryfixed, pagevars>>

NextRetry == Attempt

SpecRetry == InitRetry /\ [][NextRetry]_vars

\* requests.post has a timeout and every sleep is finite: an iteration that
\* can run does run
SpecRetryFair == SpecRetry /\ WF_vars(NextRetry)

\* C26: the retry loop ends only by returning a validated result or by
\* re-raising the exception of the last attempt: the RuntimeError after the
\* loop is never raised, whatever the API answers.
C26_LoopNeverFallsThrough ==
    result.exception # "RuntimeError"

\* C26, what does hold: the RuntimeError is raised only when the last of the
\* max_retries requests was answered with status 429.
C26_FallsThroughOnlyAfter429 ==
    result.exception = "RuntimeError"
        => (Len(requests) = max_retries /\ requests[Len(requests)].kind = "429")

\* Every request of the call was answered with status 429 and the call ended
\* with the RuntimeError.
C26_AllRateLimited ==
    /\ pc = "raised"
    /\ max_retries = 3
    /\ Len(requests) = 3
    /\ \A k \in 1..3 : requests[k].kind = "429"
    /\ result = Outcome("raised", "RuntimeError", None)

\* the response made the try block return
IsValidated(response) ==
    /\ response.kind = "content"
    /\ response.body.type # "null"
    /\ \/ validate_keywords(response.body).some
       \/ validate_prediction(response.body).some

\* C27: a call sends at most max_retries requests and ends, with a result or
\* an exception, whatever the API answers; a further request is sent only
\* after a 429, an error or an unparseable or invalid payload, never after a
\* validated result.
C27_BoundedRetriesAndTermination ==
    /\ [](Len(requests) <= max_retries)
    /\ [](\A k \in 1..(Len(requests) - 1) : ~IsValidated(requests[k]))
    /\ [](pc = "returned" => IsValidated(requests[Len(requests)]))
    /\ <>(pc \in {"returned", "raised"})

\* The third and last allowed request of a call, after a 429 and an invalid
\* payload, brought a valid payload and the call returned it.
C27_Witness ==
    /\ pc = "returned"
    /\ max_retries = 3
    /\ Len(requests) = 3
    /\ requests[1].kind = "429"
    /\ requests[2] = Response("content", KeywordsDict(Json("list", <<Json("str", <<" ">>)>>)))
    /\ result = Outcome("returned", "none", Some(<<a>>))
----------------------------------------------------------------------------
(* SpecPage and SpecV0: the matrix the pipeline hands to the renderer *)

\* every row of m has a positive sum: a pruning pass would keep all of them
AllRowsLinked(m) == \A i \in 1..Dim(m) : SumSeq(m.values[i]) > 0

\* C29: after filter_fields, apply_threshold and one pruning pass, every row
\* left in the matrix has a strictly positive sum, so a second pruning pass
\* would remove nothing: removing the zero-sum rows and columns of a symmetric
\* non-negative matrix takes nothing away from the rows that stay.
C29_PrunedMatrixHasNoZeroRow ==
    pc \in {"page_pruned", "page_shown"} => AllRowsLinked(mat)

\* Threshold 2 left only the X-Y link of three linked areas; pruning removed
\* Z and the two rows left keep their sum of 2.
C29_Witness ==
    /\ pc = "page_pruned"
    /\ threshold = 2
    /\ mat_full.index = <<X, Y, Z>>
    /\ selected_fields = <<X, Y, Z>>
    /\ mat = [index |-> <<X, Y>>, values |-> <<<<0, 2>>, <<2, 0>>>>]

\* C29 in the script of app_V0 (threshold, then pruning, in either counting
\* mode): every row left has a positive sum.
C29_HoldsInAppV0 ==
    pc \in {"v0_pruned", "v0_shown"} => AllRowsLinked(mat)
----------------------------------------------------------------------------
(* SpecOrder: the builder on a publications table and on the same table    *)
(* with its rows and the authors of its rows in another order               *)

MaxOrderNames == 3
MaxOrderPapers == 2

OrderTables == TablesUpTo(MaxOrderNames, MaxOrderPapers)

\* the censuses that resolve all three names
OrderCensusTables == {census \in CensusTables : census[1].full_name = a}

\* the permutations of 1..n
Perms(n) == {f \in [1..n -> 1..n] : \A i, j \in 1..n : f[i] = f[j] => i = j}

PermuteSeq(seq, f) == [i \in 1..Len(seq) |-> seq[f[i]]]

\* the cell with its comma-separated names in every order
PermutedCells(cell) ==
    IF IsNa(cell) THEN {cell}
    ELSE {JoinComma(PermuteSeq(parse_authors(cell), f)) :
             f \in Perms(Len(parse_authors(cell)))}

\* the table with the names of each row in every order
RECURSIVE ReorderedAuthors(_)
ReorderedAuthors(table) ==
    IF table = <<>> THEN {<<>>}
    ELSE {<<cell>> \o rest : cell \in PermutedCells(Head(table)),
                             rest \in ReorderedAuthors(Tail(table))}

\* the table with its rows in every order and the names of each row in
\* every order
PermutedTables(table) ==
    {PermuteSeq(q, f) : q \in ReorderedAuthors(table), f \in Perms(Len(table))}

InitOrder ==
    /\ WellFormedTables
    /\ WidgetDefaults
    /\ ScriptIdle
    /\ pc = "loaded"
    /\ df \in OrderTables
    /\ cen \in OrderCensusTables
    /\ name_to_field = NoRoster
    /\ mat_full = EmptyMatrix
    /\ mat = EmptyMatrix
    /\ raw = <<>>
    /\ out = <<>>

\* mat_full = collaboration_matrix_paper_level(df_papers=df, cen_df=cen)
BuildOriginal ==
    /\ pc = "loaded"
    /\ name_to_field' = build_name_to_field(cen)
    /\ mat_full' = collaboration_matrix_paper_level(df, cen)
    /\ pc' = "built"
    /\ UNCHANGED <<df, cen, mat, raw, out, schemavars, scriptvars, uivars>>

\* the same call on a reordered table
BuildReordered ==
    /\ pc = "built"
    /\ raw' \in PermutedTables(df)
    /\ mat' = collaboration_matrix_paper_level(raw', cen)
    /\ pc' = "rebuilt"
    /\ UNCHANGED <<df, cen, name_to_field, mat_full, out, schemavars, scriptvars, uivars>>

NextOrder == BuildOriginal \/ BuildReordered

SpecOrder == InitOrder /\ [][NextOrder]_vars

\* C30: the built matrix does not depend on the order of the rows of the
\* publications table nor on the order of the authors inside a row: the
\* reordered table gives the same labels in the same order and the same
\* cells.
C30_MatrixIndependentOfOrder ==
    pc = "rebuilt" => mat = mat_full

\* The rows were swapped and the authors of a row reversed, and the matrix
\* with the X-Y link was built again.
C30_Witness ==
    /\ pc = "rebuilt"
    /\ df = <<JoinComma(<<a, b>>), c>>
    /\ raw = <<c, JoinComma(<<b, a>>)>>
    /\ mat = [index |-> <<X, Y>>, values |-> <<<<0, 1>>, <<1, 0>>>>]
====
